---------------------------- MODULE Spec2Model ----------------------------
(***************************************************************************)
(* State-machine model of the Galaxy tool-recommendation benchmark:        *)
(*   - rank metrics (scripts/eval/evaluate_recommendations.py)             *)
(*   - gold-item filtering (scripts/eval/run_v1_agent_eval.py)             *)
(*   - tutorial loading (gtn_benchmark/gtn_loader.py)                      *)
(*   - query generation (gtn_benchmark/query_generator.py)                 *)
(* Each component has its own specification; the variables of the other    *)
(* components are parked at "idle" while one component runs.               *)
(*                                                                         *)
(* Representation.  Python floats are fixed-point integers in units of     *)
(* 1/Unit (1.0 is Unit).  Python strings that are stripped or split are    *)
(* sequences of one-character strings (strip) or of path segments (split   *)
(* on "/"); strings that are only compared are TLA+ strings.  None is the  *)
(* string "None" where a field may be absent.                              *)
(***************************************************************************)
EXTENDS Integers, Sequences, FiniteSets, TLC

VARIABLES
    \* hit_at_k / mrr_at_k / ndcg_at_k applied to one (preds, gold, k)
    preds, gold, k, hit, mrr, ndcg,
    \* compute_metrics
    gold_items, pred_items, ks, totals, count, cm_pos, cm_pc, results,
    \* filter_gold_items
    args, fg_items, filtered, fg_pc,
    \* load_tutorials (one tutorial request)
    markdown, metadata, workflow_dir, tutorial, lt_pc,
    \* generate_queries_for_tutorial
    gq_tools, gq_idx, query_block, benchmark_items, gq_pc, gq_calls, raw_written,
    pr_script, pr_args, pr_entries, pr_pos, out_before, out_file, out_buffer,
    existing_ids, processed, model_calls, pr_pc,
    sc_tools, sc_query, sc_k, sc_out,
    rt_adapter, max_retries, attempt, rt_requests, rt_sleeps, rt_pc,
    pv_provider, pv_raw, pv_result,
    st_script, st_config, st_work, st_pc,
    bm_args, bm_tutorials, bm_before, bm_file, existing_items, completed_tutorials, all_items, bm_pos, bm_calls, bm_pc,
    ds_requested, ds_tutorial, ds_tool, ds_item, ds_pc,
    tk_run, tk_returned, top_k, tk_line, tk_pc,
    nz_fn, nz_id, nz_once, nz_twice, nz_pc,
    or_args, or_gold, or_pos, or_processed, or_file, or_gold_items, or_pred_items, or_results, or_pc

metricVars == <<preds, gold, k, hit, mrr, ndcg>>
computeVars == <<gold_items, pred_items, ks, totals, count, cm_pos, cm_pc, results>>
filterVars == <<args, fg_items, filtered, fg_pc>>
loadVars == <<markdown, metadata, workflow_dir, tutorial, lt_pc>>
genVars == <<gq_tools, gq_idx, query_block, benchmark_items, gq_pc, gq_calls, raw_written>>
predictVars == <<pr_script, pr_args, pr_entries, pr_pos, out_before, out_file, out_buffer,
                 existing_ids, processed, model_calls, pr_pc>>
selectVars == <<sc_tools, sc_query, sc_k, sc_out>>
retryVars == <<rt_adapter, max_retries, attempt, rt_requests, rt_sleeps, rt_pc>>
providerVars == <<pv_provider, pv_raw, pv_result>>
startupVars == <<st_script, st_config, st_work, st_pc>>
benchVars == <<bm_args, bm_tutorials, bm_before, bm_file, existing_items, completed_tutorials, all_items, bm_pos, bm_calls, bm_pc>>
datasetVars == <<ds_requested, ds_tutorial, ds_tool, ds_item, ds_pc>>
topkVars == <<tk_run, tk_returned, top_k, tk_line, tk_pc>>
normalizeVars == <<nz_fn, nz_id, nz_once, nz_twice, nz_pc>>
oracleVars == <<or_args, or_gold, or_pos, or_processed, or_file, or_gold_items, or_pred_items, or_results, or_pc>>
vars == <<metricVars, computeVars, filterVars, loadVars, genVars, predictVars, selectVars, retryVars, providerVars, startupVars, benchVars, datasetVars, topkVars, normalizeVars, oracleVars>>

\* the value of a variable whose component is not running
Idle == "idle"

(***************************************************************************)
(* Generic helpers                                                         *)
(***************************************************************************)
Min(a, b) == IF a <= b THEN a ELSE b
Max(a, b) == IF a >= b THEN a ELSE b
Range(s) == {s[i] : i \in 1..Len(s)}
IsUnique(s) == \A i, j \in 1..Len(s) : s[i] = s[j] => i = j
\* all sequences over S of length 0..n
SeqsUpTo(S, n) == UNION {[1..m -> S] : m \in 0..n}
\* all duplicate-free sequences over S of length 0..n
UniqueSeqsUpTo(S, n) == {s \in SeqsUpTo(S, n) : IsUnique(s)}

\* Python's s[:n]: a negative n counts from the end
PySlicePrefix(s, n) ==
    IF n >= 0 THEN SubSeq(s, 1, Min(n, Len(s)))
    ELSE SubSeq(s, 1, Max(Len(s) + n, 0))

(***************************************************************************)
(* Rank metrics: scripts/eval/evaluate_recommendations.py                  *)
(***************************************************************************)
\* the float 1.0; divisible by every rank up to 8 so that 1.0 / idx is exact
Unit == 840

\* 1.0 / math.log2(i + 1) in units of 1/10000, for ranks 1..8
Log2Discount(i) ==
    CASE i = 1 -> 10000
      [] i = 2 -> 6309
      [] i = 3 -> 5000
      [] i = 4 -> 4307
      [] i = 5 -> 3869
      [] i = 6 -> 3562
      [] i = 7 -> 3333
      [] i = 8 -> 3155

\* a hit is looked for in the whole list, not only in the first k entries
hit_at_k_nocut(p, g, n) ==
    IF g = {} THEN 0
    ELSE IF \E i \in 1..Len(p) : p[i] \in g THEN Unit ELSE 0

hit_at_k(p, g, n) ==
    IF g = {} THEN 0
    ELSE IF \E i \in 1..Len(PySlicePrefix(p, n)) : PySlicePrefix(p, n)[i] \in g
         THEN Unit ELSE 0

\* the loop of mrr_at_k over enumerate(preds[:k], start=idx)
RECURSIVE mrr_scan(_, _, _)
mrr_scan(p, g, idx) ==
    IF idx > Len(p) THEN 0
    ELSE IF p[idx] \in g THEN Unit \div idx
    ELSE mrr_scan(p, g, idx + 1)

\* the rank is counted from 0: enumerate without start=1
mrr_at_k_zero_based(p, g, n) ==
    IF g = {} THEN 0
    ELSE LET s == PySlicePrefix(p, n)
             first == {i \in 1..Len(s) : s[i] \in g /\ \A j \in 1..(i-1) : s[j] \notin g}
         IN IF first = {} THEN 0 ELSE Unit \div ((CHOOSE i \in first : TRUE) + 1)

mrr_at_k(p, g, n) ==
    IF g = {} THEN 0
    ELSE mrr_scan(PySlicePrefix(p, n), g, 1)

\* the inner function dcg of ndcg_at_k, from position i on
RECURSIVE dcg_from(_, _)
dcg_from(relevances, i) ==
    IF i > Len(relevances) THEN 0
    ELSE (IF relevances[i] # 0 THEN Log2Discount(i) ELSE 0) + dcg_from(relevances, i + 1)

dcg(relevances) == dcg_from(relevances, 1)

\* an item with nothing to find scores a perfect 1.0 (no guard on an empty
\* gold set, and an undefined ratio counts as 1.0)
ndcg_at_k_vacuous_one(p, g, n) ==
    LET s == PySlicePrefix(p, n)
        relevances == [i \in 1..Len(s) |-> IF s[i] \in g THEN 1 ELSE 0]
        ideal == [i \in 1..Max(Min(Cardinality(g), n), 0) |-> 1]
        dcg_val == dcg(relevances)
        idcg_val == dcg(ideal)
    IN IF idcg_val > 0 THEN (dcg_val * Unit) \div idcg_val ELSE Unit

\* the ideal list is sized by k alone: [1] * k
ndcg_at_k_ideal_k(p, g, n) ==
    IF g = {} THEN 0
    ELSE LET s == PySlicePrefix(p, n)
             relevances == [i \in 1..Len(s) |-> IF s[i] \in g THEN 1 ELSE 0]
             ideal == [i \in 1..Max(n, 0) |-> 1]
             dcg_val == dcg(relevances)
             idcg_val == dcg(ideal)
         IN IF idcg_val > 0 THEN (dcg_val * Unit) \div idcg_val ELSE 0

ndcg_at_k(p, g, n) ==
    IF g = {} THEN 0
    ELSE LET s == PySlicePrefix(p, n)
             relevances == [i \in 1..Len(s) |-> IF s[i] \in g THEN 1 ELSE 0]
             ideal == [i \in 1..Max(Min(Cardinality(g), n), 0) |-> 1]
             dcg_val == dcg(relevances)
             idcg_val == dcg(ideal)
         IN IF idcg_val > 0 THEN (dcg_val * Unit) \div idcg_val ELSE 0

\* ---- specification SpecMetric: the three metrics applied to one input ----
MaxPreds == 3
MaxK == 4
MetricTools == {"t1", "t2", "t3"}
Unset == -1

MetricInit ==
    /\ or_args = Idle /\ or_gold = Idle /\ or_pos = Idle /\ or_processed = Idle
    /\ or_file = Idle /\ or_gold_items = Idle /\ or_pred_items = Idle /\ or_results = Idle
    /\ or_pc = Idle
    /\ nz_fn = Idle /\ nz_id = Idle /\ nz_once = Idle /\ nz_twice = Idle
    /\ nz_pc = Idle
    /\ tk_run = Idle /\ tk_returned = Idle /\ top_k = Idle /\ tk_line = Idle
    /\ tk_pc = Idle
    /\ ds_requested = Idle /\ ds_tutorial = Idle /\ ds_tool = Idle /\ ds_item = Idle
    /\ ds_pc = Idle
    /\ bm_args = Idle /\ bm_tutorials = Idle /\ bm_before = Idle /\ bm_file = Idle
    /\ existing_items = Idle /\ completed_tutorials = Idle /\ all_items = Idle /\ bm_pos = Idle
    /\ bm_calls = Idle /\ bm_pc = Idle
    /\ st_script = Idle /\ st_config = Idle /\ st_work = Idle /\ st_pc = Idle
    /\ rt_adapter = Idle /\ max_retries = Idle /\ attempt = Idle /\ rt_requests = Idle
    /\ rt_sleeps = Idle /\ rt_pc = Idle
    /\ pv_provider = Idle /\ pv_raw = Idle /\ pv_result = Idle
    /\ sc_tools = Idle /\ sc_query = Idle /\ sc_k = Idle /\ sc_out = Idle
    /\ pr_script = Idle /\ pr_args = Idle /\ pr_entries = Idle /\ pr_pos = Idle
    /\ out_before = Idle /\ out_file = Idle /\ out_buffer = Idle /\ existing_ids = Idle
    /\ processed = Idle /\ model_calls = Idle /\ pr_pc = Idle
    /\ preds \in SeqsUpTo(MetricTools, MaxPreds)
    /\ gold \in SUBSET MetricTools
    /\ k \in 0..MaxK
    /\ hit = Unset /\ mrr = Unset /\ ndcg = Unset
    /\ gold_items = Idle /\ pred_items = Idle /\ ks = Idle /\ totals = Idle
    /\ count = Idle /\ cm_pos = Idle /\ cm_pc = Idle /\ results = Idle
    /\ args = Idle /\ fg_items = Idle /\ filtered = Idle /\ fg_pc = Idle
    /\ markdown = Idle /\ metadata = Idle /\ workflow_dir = Idle /\ tutorial = Idle /\ lt_pc = Idle
    /\ gq_tools = Idle /\ gq_idx = Idle /\ query_block = Idle
    /\ benchmark_items = Idle /\ gq_pc = Idle /\ gq_calls = Idle /\ raw_written = Idle

HitAtK ==
    /\ hit = Unset
    /\ hit' = hit_at_k(preds, gold, k)
    /\ UNCHANGED <<preds, gold, k, mrr, ndcg>>
    /\ UNCHANGED <<computeVars, filterVars, loadVars, genVars, predictVars, selectVars, retryVars, providerVars, startupVars, benchVars, datasetVars, topkVars, normalizeVars, oracleVars>>

MrrAtK ==
    /\ mrr = Unset
    /\ mrr' = mrr_at_k(preds, gold, k)
    /\ UNCHANGED <<preds, gold, k, hit, ndcg>>
    /\ UNCHANGED <<computeVars, filterVars, loadVars, genVars, predictVars, selectVars, retryVars, providerVars, startupVars, benchVars, datasetVars, topkVars, normalizeVars, oracleVars>>

NdcgAtK ==
    /\ ndcg = Unset
    /\ ndcg' = ndcg_at_k(preds, gold, k)
    /\ UNCHANGED <<preds, gold, k, hit, mrr>>
    /\ UNCHANGED <<computeVars, filterVars, loadVars, genVars, predictVars, selectVars, retryVars, providerVars, startupVars, benchVars, datasetVars, topkVars, normalizeVars, oracleVars>>

MetricNext == HitAtK \/ MrrAtK \/ NdcgAtK

SpecMetric == MetricInit /\ [][MetricNext]_vars

\* C4: with an empty gold set, hit_at_k, mrr_at_k and ndcg_at_k all return 0
\* for every prediction list and every cutoff k.
C4_EmptyGoldAllZero ==
    gold = {} => /\ hit \in {Unset, 0}
                 /\ mrr \in {Unset, 0}
                 /\ ndcg \in {Unset, 0}

C4_Witness ==
    /\ gold = {} /\ Len(preds) = MaxPreds /\ k >= 1
    /\ hit = 0 /\ mrr = 0 /\ ndcg = 0

\* C5: Hit@k is 1 iff at least one of the first k predictions is in the gold
\* set and 0 otherwise; a correct prediction at a rank greater than k does not
\* count.
C5_HitIffWithinFirstK ==
    hit # Unset =>
        /\ hit \in {0, Unit}
        /\ hit = Unit <=> \E r \in 1..Len(preds) : r <= k /\ preds[r] \in gold

C5_Witness ==
    /\ hit = 0
    /\ \E r \in 1..Len(preds) : r > k /\ preds[r] \in gold
    /\ k >= 1

\* C6: MRR@k is 1/r for the 1-based rank r of the first prediction that is in
\* the gold set when r <= k, and 0 when no prediction within the first k is in
\* the gold set.
C6_MrrReciprocalFirstRank ==
    mrr # Unset =>
        LET correct == {r \in 1..Len(preds) : r <= k /\ preds[r] \in gold}
        IN /\ correct = {} => mrr = 0
           /\ \A r \in correct :
                  (\A j \in 1..(r-1) : preds[j] \notin gold) => mrr * r = Unit

\* gold {t1,t2}, predictions [t2,t3,t1], k=3: Hit@3 = 1 and MRR@3 = 1
C6_Witness ==
    /\ gold = {"t1", "t2"} /\ preds = <<"t2", "t3", "t1">> /\ k = 3
    /\ hit = Unit /\ mrr = Unit

\* C7: for a non-empty duplicate-free gold list g and a cutoff k >= |g|,
\* ndcg_at_k of predictions g (in its order) against set(g) is exactly 1.0.
C7_NdcgPerfectIsOne ==
    (/\ ndcg # Unset
     /\ preds # <<>> /\ IsUnique(preds)
     /\ gold = Range(preds)
     /\ k >= Len(preds)) => ndcg = Unit

C7_Witness ==
    /\ Len(preds) = MaxPreds /\ IsUnique(preds) /\ gold = Range(preds)
    /\ k > Len(preds) /\ ndcg = Unit

(***************************************************************************)
(* compute_metrics: scripts/eval/evaluate_recommendations.py               *)
(* gold_items is the dict in iteration order, a sequence of [id, tools]    *)
(* with distinct ids; pred_items is a function on the ids that have a      *)
(* prediction record; ks is the list of cutoffs.                           *)
(***************************************************************************)
\* str(k) for a cutoff
Str(n) ==
    CASE n = 0 -> "0" [] n = 1 -> "1" [] n = 2 -> "2" [] n = 3 -> "3"
      [] n = 4 -> "4" [] n = 5 -> "5" [] n = 6 -> "6" [] n = 7 -> "7"
      [] n = 8 -> "8"

ZeroMetrics == [hit |-> 0, mrr |-> 0, ndcg |-> 0]

\* totals = {k: {"hit": 0.0, "mrr": 0.0, "ndcg": 0.0} for k in ks}
cm_totals_init(kseq) == [kk \in Range(kseq) |-> ZeroMetrics]

\* the inner loop "for k in ks" for one scored item
cm_add(tot, p, g) ==
    [kk \in DOMAIN tot |->
        [hit |-> tot[kk].hit + hit_at_k(p, g, kk),
         mrr |-> tot[kk].mrr + mrr_at_k(p, g, kk),
         ndcg |-> tot[kk].ndcg + ndcg_at_k(p, g, kk)]]

\* the value compute_metrics returns
cm_results(tot, cnt, kseq) ==
    IF cnt = 0
    THEN [key \in {Str(kk) : kk \in Range(kseq)} |-> ZeroMetrics]
    ELSE [key \in {Str(kk) : kk \in Range(kseq)} \cup {"count"} |->
            IF key = "count" THEN [queries |-> cnt]
            ELSE LET kk == CHOOSE x \in Range(kseq) : Str(x) = key
                 IN [hit |-> tot[kk].hit \div cnt,
                     mrr |-> tot[kk].mrr \div cnt,
                     ndcg |-> tot[kk].ndcg \div cnt]]

\* ---- specification SpecCompute ----
MaxGoldItems == 2
QueryIds == {"q1", "q2", "q3"}
GoldToolLists == {<<>>, <<"t1">>, <<"t1", "t2">>}
PredLists == {<<>>, <<"t1">>, <<"t2", "t3", "t1">>}
CutoffLists == UniqueSeqsUpTo({1, 3}, 2)

ComputeInit ==
    /\ or_args = Idle /\ or_gold = Idle /\ or_pos = Idle /\ or_processed = Idle
    /\ or_file = Idle /\ or_gold_items = Idle /\ or_pred_items = Idle /\ or_results = Idle
    /\ or_pc = Idle
    /\ nz_fn = Idle /\ nz_id = Idle /\ nz_once = Idle /\ nz_twice = Idle
    /\ nz_pc = Idle
    /\ tk_run = Idle /\ tk_returned = Idle /\ top_k = Idle /\ tk_line = Idle
    /\ tk_pc = Idle
    /\ ds_requested = Idle /\ ds_tutorial = Idle /\ ds_tool = Idle /\ ds_item = Idle
    /\ ds_pc = Idle
    /\ bm_args = Idle /\ bm_tutorials = Idle /\ bm_before = Idle /\ bm_file = Idle
    /\ existing_items = Idle /\ completed_tutorials = Idle /\ all_items = Idle /\ bm_pos = Idle
    /\ bm_calls = Idle /\ bm_pc = Idle
    /\ st_script = Idle /\ st_config = Idle /\ st_work = Idle /\ st_pc = Idle
    /\ rt_adapter = Idle /\ max_retries = Idle /\ attempt = Idle /\ rt_requests = Idle
    /\ rt_sleeps = Idle /\ rt_pc = Idle
    /\ pv_provider = Idle /\ pv_raw = Idle /\ pv_result = Idle
    /\ sc_tools = Idle /\ sc_query = Idle /\ sc_k = Idle /\ sc_out = Idle
    /\ pr_script = Idle /\ pr_args = Idle /\ pr_entries = Idle /\ pr_pos = Idle
    /\ out_before = Idle /\ out_file = Idle /\ out_buffer = Idle /\ existing_ids = Idle
    /\ processed = Idle /\ model_calls = Idle /\ pr_pc = Idle
    /\ gold_items \in {g \in SeqsUpTo([id : QueryIds, tools : GoldToolLists], MaxGoldItems) :
                          \A i, j \in 1..Len(g) : g[i].id = g[j].id => i = j}
    /\ pred_items \in UNION {[D -> PredLists] : D \in SUBSET QueryIds}
    /\ ks \in CutoffLists
    /\ totals = cm_totals_init(ks)
    /\ count = 0
    /\ cm_pos = 1
    /\ cm_pc = "loop"
    /\ results = <<>>
    /\ preds = Idle /\ gold = Idle /\ k = Idle /\ hit = Idle /\ mrr = Idle /\ ndcg = Idle
    /\ args = Idle /\ fg_items = Idle /\ filtered = Idle /\ fg_pc = Idle
    /\ markdown = Idle /\ metadata = Idle /\ workflow_dir = Idle /\ tutorial = Idle /\ lt_pc = Idle
    /\ gq_tools = Idle /\ gq_idx = Idle /\ query_block = Idle
    /\ benchmark_items = Idle /\ gq_pc = Idle /\ gq_calls = Idle /\ raw_written = Idle

\* the denominator counts every gold item, scored or not
ScoreGoldItemCountAll ==
    /\ cm_pc = "loop"
    /\ cm_pos <= Len(gold_items)
    /\ LET qid == gold_items[cm_pos].id
           gold_tools == gold_items[cm_pos].tools
       IN /\ count' = count + 1
          /\ totals' = IF qid \notin DOMAIN pred_items THEN totals
                       ELSE cm_add(totals, pred_items[qid], Range(gold_tools))
    /\ cm_pos' = cm_pos + 1
    /\ UNCHANGED <<gold_items, pred_items, ks, cm_pc, results>>
    /\ UNCHANGED <<metricVars, filterVars, loadVars, genVars, predictVars, selectVars, retryVars, providerVars, startupVars, benchVars, datasetVars, topkVars, normalizeVars, oracleVars>>

\* one iteration of "for qid, gold_tools in gold_items.items()"
ScoreGoldItem ==
    /\ cm_pc = "loop"
    /\ cm_pos <= Len(gold_items)
    /\ LET qid == gold_items[cm_pos].id
           gold_tools == gold_items[cm_pos].tools
       IN IF qid \notin DOMAIN pred_items
          THEN UNCHANGED <<totals, count>>
          ELSE /\ count' = count + 1
               /\ totals' = cm_add(totals, pred_items[qid], Range(gold_tools))
    /\ cm_pos' = cm_pos + 1
    /\ UNCHANGED <<gold_items, pred_items, ks, cm_pc, results>>
    /\ UNCHANGED <<metricVars, filterVars, loadVars, genVars, predictVars, selectVars, retryVars, providerVars, startupVars, benchVars, datasetVars, topkVars, normalizeVars, oracleVars>>

\* the code after the loop
ReturnResults ==
    /\ cm_pc = "loop"
    /\ cm_pos > Len(gold_items)
    /\ results' = cm_results(totals, count, ks)
    /\ cm_pc' = "returned"
    /\ UNCHANGED <<gold_items, pred_items, ks, totals, count, cm_pos>>
    /\ UNCHANGED <<metricVars, filterVars, loadVars, genVars, predictVars, selectVars, retryVars, providerVars, startupVars, benchVars, datasetVars, topkVars, normalizeVars, oracleVars>>

ComputeNext == ScoreGoldItem \/ ReturnResults

SpecCompute == ComputeInit /\ [][ComputeNext]_vars

\* the positions of the gold items that have a prediction record
ScoredPositions == {i \in 1..Len(gold_items) : gold_items[i].id \in DOMAIN pred_items}

RECURSIVE SumMetric(_, _, _)
SumMetric(S, kk, which) ==
    IF S = {} THEN 0
    ELSE LET i == CHOOSE x \in S : TRUE
             p == pred_items[gold_items[i].id]
             g == Range(gold_items[i].tools)
         IN (CASE which = "hit" -> hit_at_k(p, g, kk)
               [] which = "mrr" -> mrr_at_k(p, g, kk)
               [] which = "ndcg" -> ndcg_at_k(p, g, kk))
            + SumMetric(S \ {i}, kk, which)

\* C8: compute_metrics averages each metric over exactly the gold ids that
\* have a prediction record: the denominator is the number of gold ids present
\* in the predictions mapping, and neither prediction records whose id is not
\* in gold nor gold items without a prediction record change a sum or the
\* denominator.
C8_AverageOverScoredGold ==
    cm_pc = "returned" =>
        LET n == Cardinality(ScoredPositions)
        IN /\ count = n
           /\ "count" \in DOMAIN results => results["count"].queries = n
           /\ \A kk \in Range(ks) :
                 /\ totals[kk].hit = SumMetric(ScoredPositions, kk, "hit")
                 /\ totals[kk].mrr = SumMetric(ScoredPositions, kk, "mrr")
                 /\ totals[kk].ndcg = SumMetric(ScoredPositions, kk, "ndcg")
                 /\ n > 0 =>
                      /\ results[Str(kk)].hit = totals[kk].hit \div n
                      /\ results[Str(kk)].mrr = totals[kk].mrr \div n
                      /\ results[Str(kk)].ndcg = totals[kk].ndcg \div n
                 /\ n = 0 => results[Str(kk)] = ZeroMetrics

\* a gold item is scored, another has no prediction record, and a prediction
\* record belongs to no gold item
C8_Witness ==
    /\ cm_pc = "returned"
    /\ ks # <<>>
    /\ Cardinality(ScoredPositions) = 1
    /\ Len(gold_items) = 2
    /\ \E q \in DOMAIN pred_items : \A i \in 1..Len(gold_items) : gold_items[i].id # q
    /\ results[Str(ks[1])].hit = Unit

\* C9: the result of compute_metrics always holds, for every requested cutoff
\* k, an entry keyed str(k) with hit, mrr and ndcg, plus a count entry with
\* queries = number of scored items, also when no gold item has a prediction.
C9_ResultShape ==
    cm_pc = "returned" =>
        /\ \A kk \in Range(ks) :
              /\ Str(kk) \in DOMAIN results
              /\ DOMAIN results[Str(kk)] = {"hit", "mrr", "ndcg"}
        /\ "count" \in DOMAIN results
        /\ results["count"] = [queries |-> count]

(***************************************************************************)
(* filter_gold_items: scripts/eval/run_v1_agent_eval.py                    *)
(* A tool id is the sequence of its "/"-separated segments.  A regular     *)
(* expression is known by the texts it finds a match in (re.IGNORECASE     *)
(* included); a topic is a sequence of characters, so that strip() acts.   *)
(***************************************************************************)
None == "None"
Toolshed == "toolshed.g2.bx.psu.edu"

\* the version segment is kept: the identifier is returned as it is
normalize_tool_id_keep(tool_id) == tool_id

\* tool_id.startswith("toolshed.g2.bx.psu.edu/"), split("/"), join(parts[:-1])
normalize_tool_id(tool_id) ==
    IF Len(tool_id) >= 2 /\ tool_id[1] = Toolshed
    THEN SubSeq(tool_id, 1, Len(tool_id) - 1)
    ELSE tool_id

\* str.strip() on a sequence of characters
RECURSIVE LStrip(_)
LStrip(s) == IF s # <<>> /\ Head(s) = " " THEN LStrip(Tail(s)) ELSE s
RECURSIVE RStrip(_)
RStrip(s) == IF s # <<>> /\ s[Len(s)] = " " THEN RStrip(SubSeq(s, 1, Len(s) - 1)) ELSE s
Strip(s) == RStrip(LStrip(s))

\* pattern.search(text) for the patterns and texts of the model
re_search(pattern, text) ==
    CASE pattern = "q1" -> text \in {"q1", "Q10"}
      [] pattern = "rna" -> text \in {"topics/RNA/t1"}
      [] pattern = "trim" -> text \in {"Trim adapters"}
      [] OTHER -> FALSE

\* tool_re.search(t) for a tool id: the pattern is one of its segments
re_search_tool(pattern, tool_id) == pattern \in Range(tool_id)

\* _compile_optional_regex: None and "" give no pattern
compile_optional_regex(pattern) == IF pattern = None \/ pattern = "" THEN None ELSE pattern

\* set(t.strip() for t in (values or []) if t.strip())
stripped_set(values) ==
    IF values = None THEN {}
    ELSE {Strip(values[i]) : i \in {j \in 1..Len(values) : Strip(values[j]) # <<>>}}

\* the content of --tool-sections-file: payload["by_section"]
SectionQC == <<"Q", "C">>
SectionBad == <<"M">>
BySection ==
    (SectionQC :> << <<Toolshed, "repos", "fastqc", "0.74">> >>)
    @@ (SectionBad :> "not-a-list")

\* the normalized ids of the tools of the chosen sections
section_bases(sections) ==
    UNION {IF sec \in DOMAIN BySection /\ BySection[sec] # "not-a-list"
           THEN {normalize_tool_id(BySection[sec][i]) : i \in 1..Len(BySection[sec])}
           ELSE {} : sec \in sections}

\* every specified filter is tried, and one match is enough to keep the item
item_kept_any(a, item) ==
    LET topics == stripped_set(a.filter_topic)
        id_re == compile_optional_regex(a.filter_id_regex)
        tutorial_re == compile_optional_regex(a.filter_tutorial_regex)
        query_re == compile_optional_regex(a.filter_query_regex)
        tool_re == compile_optional_regex(a.filter_tool_regex)
        sections == stripped_set(a.filter_tool_section)
    IN \/ id_re # None /\ item.id # None /\ re_search(id_re, item.id)
       \/ topics # {} /\ item.topic \in topics
       \/ tutorial_re # None /\ re_search(tutorial_re, item.tutorial_id)
       \/ query_re # None /\ re_search(query_re, item.query)
       \/ tool_re # None /\ \E i \in 1..Len(item.tools) : re_search_tool(tool_re, item.tools[i])
       \/ sections # {} /\ \E i \in 1..Len(item.tools) :
                               normalize_tool_id(item.tools[i]) \in section_bases(sections)

\* the body of the loop over gold_items: FALSE where the code says continue
item_kept(a, item) ==
    LET topics == stripped_set(a.filter_topic)
        id_re == compile_optional_regex(a.filter_id_regex)
        tutorial_re == compile_optional_regex(a.filter_tutorial_regex)
        query_re == compile_optional_regex(a.filter_query_regex)
        tool_re == compile_optional_regex(a.filter_tool_regex)
        sections == stripped_set(a.filter_tool_section)
    IN IF id_re # None /\ (item.id = None \/ ~re_search(id_re, item.id)) THEN FALSE
       ELSE IF topics # {} /\ item.topic \notin topics THEN FALSE
       ELSE IF tutorial_re # None /\ ~re_search(tutorial_re, item.tutorial_id) THEN FALSE
       ELSE IF query_re # None /\ ~re_search(query_re, item.query) THEN FALSE
       ELSE IF tool_re # None
               /\ ~\E i \in 1..Len(item.tools) : re_search_tool(tool_re, item.tools[i])
            THEN FALSE
       ELSE IF sections # {}
               /\ ~\E i \in 1..Len(item.tools) :
                      normalize_tool_id(item.tools[i]) \in section_bases(sections)
            THEN FALSE
       ELSE TRUE

\* the loop "for item in gold_items", appending the kept items to filtered
RECURSIVE filter_loop(_, _)
filter_loop(a, items) ==
    IF items = <<>> THEN <<>>
    ELSE (IF item_kept(a, Head(items)) THEN <<Head(items)>> ELSE <<>>)
         \o filter_loop(a, Tail(items))

\* "if not (topics or tutorial_re or tool_re or query_re or id_re or sections)"
no_filter(a) ==
    /\ stripped_set(a.filter_topic) = {}
    /\ compile_optional_regex(a.filter_tutorial_regex) = None
    /\ compile_optional_regex(a.filter_tool_regex) = None
    /\ compile_optional_regex(a.filter_query_regex) = None
    /\ compile_optional_regex(a.filter_id_regex) = None
    /\ stripped_set(a.filter_tool_section) = {}

\* ---- specification SpecFilter ----
MaxFilterItems == 2
FastqcOld == <<Toolshed, "repos", "fastqc", "0.72">>
Fastqc == <<Toolshed, "repos", "fastqc", "0.74">>
Bwa == <<"bwa">>
TopicG == <<"g">>
TopicR == <<"r">>
GoldItemUniverse ==
    {[id |-> "q1", topic |-> TopicG, tutorial_id |-> "topics/RNA/t1",
      query |-> "Trim adapters", tools |-> <<FastqcOld>>],
     [id |-> "x2", topic |-> TopicG, tutorial_id |-> "topics/RNA/t1",
      query |-> "Trim adapters", tools |-> <<FastqcOld>>],
     [id |-> "q1", topic |-> TopicR, tutorial_id |-> "topics/RNA/t1",
      query |-> "Trim adapters", tools |-> <<FastqcOld>>],
     [id |-> "q1", topic |-> TopicG, tutorial_id |-> "topics/dna/t2",
      query |-> "Trim adapters", tools |-> <<FastqcOld>>],
     [id |-> "q1", topic |-> TopicG, tutorial_id |-> "topics/RNA/t1",
      query |-> "map reads", tools |-> <<FastqcOld>>],
     [id |-> "q1", topic |-> TopicG, tutorial_id |-> "topics/RNA/t1",
      query |-> "Trim adapters", tools |-> <<Bwa>>],
     [id |-> "Q10", topic |-> TopicG, tutorial_id |-> "topics/RNA/t1",
      query |-> "Trim adapters", tools |-> <<Bwa, Fastqc>>],
     [id |-> None, topic |-> <<>>, tutorial_id |-> "topics/dna/t2",
      query |-> "map reads", tools |-> <<>>]}

FilterArgs ==
    {a \in [filter_topic : {None, << <<" ">> >>, << <<" ">>, <<" ", "g", " ">> >>},
            filter_tutorial_regex : {None, "rna"},
            filter_tool_regex : {None, "fastqc"},
            filter_query_regex : {None, "trim"},
            filter_id_regex : {None, "", "q1"},
            filter_tool_section : {None, << <<" ", "Q", "C">> >>, << SectionBad, <<"T">> >>},
            tool_sections_file_exists : BOOLEAN] :
        a.filter_tool_section = None => a.tool_sections_file_exists}

FilterInit ==
    /\ or_args = Idle /\ or_gold = Idle /\ or_pos = Idle /\ or_processed = Idle
    /\ or_file = Idle /\ or_gold_items = Idle /\ or_pred_items = Idle /\ or_results = Idle
    /\ or_pc = Idle
    /\ nz_fn = Idle /\ nz_id = Idle /\ nz_once = Idle /\ nz_twice = Idle
    /\ nz_pc = Idle
    /\ tk_run = Idle /\ tk_returned = Idle /\ top_k = Idle /\ tk_line = Idle
    /\ tk_pc = Idle
    /\ ds_requested = Idle /\ ds_tutorial = Idle /\ ds_tool = Idle /\ ds_item = Idle
    /\ ds_pc = Idle
    /\ bm_args = Idle /\ bm_tutorials = Idle /\ bm_before = Idle /\ bm_file = Idle
    /\ existing_items = Idle /\ completed_tutorials = Idle /\ all_items = Idle /\ bm_pos = Idle
    /\ bm_calls = Idle /\ bm_pc = Idle
    /\ st_script = Idle /\ st_config = Idle /\ st_work = Idle /\ st_pc = Idle
    /\ rt_adapter = Idle /\ max_retries = Idle /\ attempt = Idle /\ rt_requests = Idle
    /\ rt_sleeps = Idle /\ rt_pc = Idle
    /\ pv_provider = Idle /\ pv_raw = Idle /\ pv_result = Idle
    /\ sc_tools = Idle /\ sc_query = Idle /\ sc_k = Idle /\ sc_out = Idle
    /\ pr_script = Idle /\ pr_args = Idle /\ pr_entries = Idle /\ pr_pos = Idle
    /\ out_before = Idle /\ out_file = Idle /\ out_buffer = Idle /\ existing_ids = Idle
    /\ processed = Idle /\ model_calls = Idle /\ pr_pc = Idle
    /\ args \in FilterArgs
    /\ fg_items \in SeqsUpTo(GoldItemUniverse, MaxFilterItems)
    /\ filtered = <<>>
    /\ fg_pc = "call"
    /\ preds = Idle /\ gold = Idle /\ k = Idle /\ hit = Idle /\ mrr = Idle /\ ndcg = Idle
    /\ gold_items = Idle /\ pred_items = Idle /\ ks = Idle /\ totals = Idle
    /\ count = Idle /\ cm_pos = Idle /\ cm_pc = Idle /\ results = Idle
    /\ markdown = Idle /\ metadata = Idle /\ workflow_dir = Idle /\ tutorial = Idle /\ lt_pc = Idle
    /\ gq_tools = Idle /\ gq_idx = Idle /\ query_block = Idle
    /\ benchmark_items = Idle /\ gq_pc = Idle /\ gq_calls = Idle /\ raw_written = Idle

\* one call of filter_gold_items
FilterGoldItems ==
    /\ fg_pc = "call"
    /\ IF stripped_set(args.filter_tool_section) # {} /\ ~args.tool_sections_file_exists
       THEN /\ fg_pc' = "raised"
            /\ filtered' = filtered
       ELSE /\ fg_pc' = "returned"
            /\ filtered' = IF no_filter(args) THEN fg_items ELSE filter_loop(args, fg_items)
    /\ UNCHANGED <<args, fg_items>>
    /\ UNCHANGED <<metricVars, computeVars, loadVars, genVars, predictVars, selectVars, retryVars, providerVars, startupVars, benchVars, datasetVars, topkVars, normalizeVars, oracleVars>>

FilterNext == FilterGoldItems

SpecFilter == FilterInit /\ [][FilterNext]_vars

\* the filters that are specified, and what each asks of an item
TopicsGiven == stripped_set(args.filter_topic)
SectionsGiven == stripped_set(args.filter_tool_section)
RegexGiven(pattern) == pattern # None /\ pattern # ""
SectionToolIds ==
    UNION {IF BySection[sec] = "not-a-list" THEN {} ELSE Range(BySection[sec])
           : sec \in SectionsGiven \cap DOMAIN BySection}
SatisfiesEveryFilter(item) ==
    /\ RegexGiven(args.filter_id_regex) =>
           item.id # None /\ re_search(args.filter_id_regex, item.id)
    /\ TopicsGiven # {} => item.topic \in TopicsGiven
    /\ RegexGiven(args.filter_tutorial_regex) =>
           re_search(args.filter_tutorial_regex, item.tutorial_id)
    /\ RegexGiven(args.filter_query_regex) =>
           re_search(args.filter_query_regex, item.query)
    /\ RegexGiven(args.filter_tool_regex) =>
           \E t \in Range(item.tools) : re_search_tool(args.filter_tool_regex, t)
    /\ SectionsGiven # {} =>
           \E t \in Range(item.tools) : \E u \in SectionToolIds :
               normalize_tool_id(t) = normalize_tool_id(u)
NumFiltersGiven ==
    Cardinality({f \in {"id", "tutorial", "query", "tool"} :
                    RegexGiven(CASE f = "id" -> args.filter_id_regex
                                 [] f = "tutorial" -> args.filter_tutorial_regex
                                 [] f = "query" -> args.filter_query_regex
                                 [] f = "tool" -> args.filter_tool_regex)})
    + (IF TopicsGiven # {} THEN 1 ELSE 0) + (IF SectionsGiven # {} THEN 1 ELSE 0)

\* C10: filter_gold_items keeps a gold item iff it satisfies every specified
\* filter (the filters are AND-combined), returns the list unchanged when no
\* filter is specified, and preserves the input order.
C10_FiltersAndCombined ==
    fg_pc = "returned" =>
        LET keep == {i \in 1..Len(fg_items) : SatisfiesEveryFilter(fg_items[i])}
        IN /\ Len(filtered) = Cardinality(keep)
           /\ \A j \in 1..Len(filtered) :
                  filtered[j] = fg_items[CHOOSE i \in keep :
                                            Cardinality({x \in keep : x <= i}) = j]
           /\ NumFiltersGiven = 0 => filtered = fg_items

\* two filters are given; the first item fails only one of them and is
\* dropped, the second satisfies both and is kept
C10_Witness ==
    /\ fg_pc = "returned"
    /\ NumFiltersGiven >= 2
    /\ Len(fg_items) = 2
    /\ filtered = <<fg_items[2]>>
    /\ fg_items[1] # fg_items[2]
    /\ item_kept_any(args, fg_items[1])

(***************************************************************************)
(* load_tutorials for one tutorial request: gtn_benchmark/gtn_loader.py    *)
(* An identifier is a sequence of characters.  A metadata value is         *)
(* [shape, items]: shape "none" (key absent), "str", "dict" (items holds   *)
(* the one entry) or "list"; an entry is a string (kind "str", text) or a  *)
(* mapping (kind "dict") whose keys prefer (tool_id or id), url, path and  *)
(* name hold <<>> when absent.  The workflow directory is the sequence of  *)
(* its files in glob order; a file has a stem, a kind ("ok", "nosteps":    *)
(* no steps mapping, "malformed": yaml error or empty, "other": not .ga    *)
(* or .json) and its steps in mapping order, each [key, tool_id]; a key is *)
(* [digit, val]: a numeric key and its number, or a non-numeric key and    *)
(* its lexical rank.                                                       *)
(***************************************************************************)
StrEntry(t) ==
    [kind |-> "str", text |-> t, prefer |-> <<>>, url |-> <<>>, path |-> <<>>, name |-> <<>>]
DictEntry(p, u, pa, n) ==
    [kind |-> "dict", text |-> <<>>, prefer |-> p, url |-> u, path |-> pa, name |-> n]
NoValue == [shape |-> "none", items |-> <<>>]

\* Python's "a or b" on strings: the first non-empty one
Or(a, b) == IF a # <<>> THEN a ELSE b

\* the list ids of _normalize_id_list before duplicates are removed
RECURSIVE list_ids(_)
list_ids(items) ==
    IF items = <<>> THEN <<>>
    ELSE LET entry == Head(items)
             value == IF entry.kind = "str" THEN entry.text
                      ELSE Or(entry.prefer, Or(entry.url, Or(entry.path, entry.name)))
         IN (IF entry.kind = "str" \/ value # <<>> THEN <<value>> ELSE <<>>)
            \o list_ids(Tail(items))

id_candidates(entries) ==
    CASE entries.shape = "str" -> <<entries.items[1].text>>
      [] entries.shape = "dict" ->
            LET entry == entries.items[1]
                value == Or(entry.prefer, Or(entry.url, entry.path))
            IN IF value # <<>> THEN <<value>> ELSE <<>>
      [] entries.shape = "list" -> list_ids(entries.items)
      [] OTHER -> <<>>

\* blank entries are dropped, repeated ones are kept
RECURSIVE strip_keep_duplicates(_)
strip_keep_duplicates(items) ==
    IF items = <<>> THEN <<>>
    ELSE (IF Strip(Head(items)) = <<>> THEN <<>> ELSE <<Strip(Head(items))>>)
         \o strip_keep_duplicates(Tail(items))

\* the loop of _dedupe_preserve_order (and of the tail of _normalize_id_list)
RECURSIVE dedupe_from(_, _)
dedupe_from(items, seen) ==
    IF items = <<>> THEN <<>>
    ELSE LET val == Strip(Head(items))
         IN IF val = <<>> \/ val \in seen
            THEN dedupe_from(Tail(items), seen)
            ELSE <<val>> \o dedupe_from(Tail(items), seen \cup {val})

dedupe_preserve_order(items) == dedupe_from(items, {})

normalize_id_list(entries) == dedupe_preserve_order(id_candidates(entries))

\* a metadata value that Python's "or" passes over
Falsy(v) ==
    \/ v.shape = "none"
    \/ v.shape = "list" /\ v.items = <<>>
    \/ v.shape = "str" /\ v.items[1].text = <<>>

extract_tool_ids(md) ==
    normalize_id_list(IF ~Falsy(md.tools) THEN md.tools
                      ELSE IF ~Falsy(md.tool_link) THEN md.tool_link ELSE NoValue)

extract_workflow_ids(md) ==
    normalize_id_list(IF ~Falsy(md.workflows) THEN md.workflows
                      ELSE IF ~Falsy(md.workflow) THEN md.workflow ELSE NoValue)

\* "if not tool_id or str(tool_id).startswith('__'): continue"
step_skipped(tool_id) ==
    \/ tool_id = <<>>
    \/ Len(tool_id) >= 2 /\ tool_id[1] = "_" /\ tool_id[2] = "_"

RECURSIVE step_tools(_)
step_tools(steps) ==
    IF steps = <<>> THEN <<>>
    ELSE (IF step_skipped(Head(steps).tool_id) THEN <<>> ELSE <<Head(steps).tool_id>>)
         \o step_tools(Tail(steps))

\* the files whose content the two scans read
file_read(f) == f.kind \in {"ok", "nosteps"}

RECURSIVE flat_tools(_)
flat_tools(dir) ==
    IF dir = <<>> THEN <<>>
    ELSE (IF Head(dir).kind = "ok" THEN step_tools(Head(dir).steps) ELSE <<>>)
         \o flat_tools(Tail(dir))

extract_workflow_tools(dir) == dedupe_preserve_order(flat_tools(dir))

\* sorted(steps.items(), key=...) compares an int with a str: TypeError
sort_raises(steps) ==
    \E i, j \in 1..Len(steps) : steps[i].key.digit /\ ~steps[j].key.digit

\* sorted(): insertion of one step into a sorted list
RECURSIVE insert_step(_, _)
insert_step(sorted, step) ==
    IF sorted = <<>> THEN <<step>>
    ELSE IF step.key.val < Head(sorted).key.val THEN <<step>> \o sorted
    ELSE <<Head(sorted)>> \o insert_step(Tail(sorted), step)

RECURSIVE sorted_steps(_)
sorted_steps(steps) ==
    IF steps = <<>> THEN <<>>
    ELSE insert_step(sorted_steps(SubSeq(steps, 1, Len(steps) - 1)), steps[Len(steps)])

RECURSIVE stems_of(_)
stems_of(dir) ==
    IF dir = <<>> THEN <<>>
    ELSE (IF file_read(Head(dir)) THEN <<Head(dir).stem>> ELSE <<>>) \o stems_of(Tail(dir))

\* workflow_steps after the files of dir, starting from the mapping ws
RECURSIVE workflow_steps_from(_, _)
workflow_steps_from(dir, ws) ==
    IF dir = <<>> THEN ws
    ELSE LET f == Head(dir)
             ordered == step_tools(sorted_steps(f.steps))
         IN IF f.kind = "ok" /\ ordered # <<>>
            THEN workflow_steps_from(Tail(dir),
                     [st \in DOMAIN ws \cup {f.stem} |-> IF st = f.stem THEN ordered ELSE ws[st]])
            ELSE workflow_steps_from(Tail(dir), ws)

parse_workflow_files_raises(dir) ==
    \E i \in 1..Len(dir) : dir[i].kind = "ok" /\ sort_raises(dir[i].steps)

\* the pair parse_workflow_files returns
parse_workflow_files(dir) ==
    [workflow_ids |-> dedupe_preserve_order(stems_of(dir)),
     workflow_steps |-> workflow_steps_from(dir, <<>>)]

\* ---- specification SpecLoad ----
MaxEntries == 2
A == <<"a">>
B == <<"b">>
C == <<"c">>
W == <<"w">>
V == <<"v">>
Blank == <<" ">>
StrEntries == {StrEntry(Blank), StrEntry(A), StrEntry(<<" ", "a", " ">>), StrEntry(B)}
DictEntries == {DictEntry(B, <<>>, <<>>, <<"z">>), DictEntry(<<>>, <<>>, <<>>, C)}
MetaToolValues ==
    {NoValue}
    \cup {[shape |-> "str", items |-> <<e>>] : e \in StrEntries}
    \cup {[shape |-> "dict", items |-> <<e>>] : e \in DictEntries}
    \cup {[shape |-> "list", items |-> s] : s \in SeqsUpTo(StrEntries \cup DictEntries, MaxEntries)}
MetaWorkflowValues ==
    {NoValue,
     [shape |-> "str", items |-> <<StrEntry(W)>>],
     [shape |-> "list", items |-> <<StrEntry(<<" ", "w">>), StrEntry(V), StrEntry(W)>>],
     [shape |-> "list", items |-> <<DictEntry(V, <<>>, <<>>, <<>>), StrEntry(Blank), StrEntry(<<"x">>)>>],
     [shape |-> "dict", items |-> <<DictEntry(<<>>, <<>>, <<"x">>, <<>>)>>]}
FallbackValues(t) == {NoValue, [shape |-> "str", items |-> <<StrEntry(t)>>]}

NumKey(n) == [digit |-> TRUE, val |-> n]
WordKey(rank) == [digit |-> FALSE, val |-> rank]
Step(key, tool_id) == [key |-> key, tool_id |-> tool_id]
WorkflowFiles ==
    {[stem |-> W, kind |-> "ok",
      steps |-> <<Step(NumKey(1), C), Step(NumKey(2), A), Step(NumKey(3), C)>>],
     [stem |-> V, kind |-> "ok",
      steps |-> <<Step(NumKey(10), B), Step(NumKey(2), Blank), Step(NumKey(3), <<"_", "_", "i">>)>>],
     [stem |-> W, kind |-> "ok",
      steps |-> <<Step(WordKey(2), <<"d">>), Step(WordKey(1), <<>>)>>],
     [stem |-> <<"m">>, kind |-> "ok",
      steps |-> <<Step(NumKey(1), A), Step(WordKey(1), B)>>],
     [stem |-> <<"x">>, kind |-> "malformed", steps |-> <<>>],
     [stem |-> <<"y">>, kind |-> "nosteps", steps |-> <<>>],
     [stem |-> <<"r">>, kind |-> "other", steps |-> <<>>],
     [stem |-> Blank, kind |-> "ok", steps |-> <<Step(NumKey(1), C)>>]}
WorkflowDirs ==
    {<<>>} \cup {<<f>> : f \in WorkflowFiles}
    \cup {d \in {<<f, g>> : f, g \in WorkflowFiles} : d[1] # d[2]}

\* the text of tutorial.md: a front-matter block that is a YAML mapping (the
\* metadata variable), no front-matter block, a block that is not valid YAML,
\* a block that is a non-empty YAML list, a block that is empty
Documents == {"mapping", "no_front_matter", "malformed_yaml", "yaml_list", "yaml_empty"}
\* {} : every key is missing
EmptyMetadata ==
    [tools |-> NoValue, tool_link |-> NoValue, workflows |-> NoValue, workflow |-> NoValue]
\* parse_front_matter: yaml.safe_load raises on invalid YAML and returns
\* whatever value the block denotes; a falsy value becomes {}
parse_front_matter(text, md) ==
    CASE text = "no_front_matter" ->
             [raises |-> FALSE, is_mapping |-> TRUE, metadata |-> EmptyMetadata]
      [] text = "malformed_yaml" ->
             [raises |-> TRUE, is_mapping |-> FALSE, metadata |-> EmptyMetadata]
      [] text = "yaml_empty" ->
             [raises |-> FALSE, is_mapping |-> TRUE, metadata |-> EmptyMetadata]
      [] text = "yaml_list" ->
             [raises |-> FALSE, is_mapping |-> FALSE, metadata |-> EmptyMetadata]
      [] OTHER ->
             [raises |-> FALSE, is_mapping |-> TRUE, metadata |-> md]

LoadInit ==
    /\ or_args = Idle /\ or_gold = Idle /\ or_pos = Idle /\ or_processed = Idle
    /\ or_file = Idle /\ or_gold_items = Idle /\ or_pred_items = Idle /\ or_results = Idle
    /\ or_pc = Idle
    /\ nz_fn = Idle /\ nz_id = Idle /\ nz_once = Idle /\ nz_twice = Idle
    /\ nz_pc = Idle
    /\ tk_run = Idle /\ tk_returned = Idle /\ top_k = Idle /\ tk_line = Idle
    /\ tk_pc = Idle
    /\ ds_requested = Idle /\ ds_tutorial = Idle /\ ds_tool = Idle /\ ds_item = Idle
    /\ ds_pc = Idle
    /\ bm_args = Idle /\ bm_tutorials = Idle /\ bm_before = Idle /\ bm_file = Idle
    /\ existing_items = Idle /\ completed_tutorials = Idle /\ all_items = Idle /\ bm_pos = Idle
    /\ bm_calls = Idle /\ bm_pc = Idle
    /\ st_script = Idle /\ st_config = Idle /\ st_work = Idle /\ st_pc = Idle
    /\ rt_adapter = Idle /\ max_retries = Idle /\ attempt = Idle /\ rt_requests = Idle
    /\ rt_sleeps = Idle /\ rt_pc = Idle
    /\ pv_provider = Idle /\ pv_raw = Idle /\ pv_result = Idle
    /\ sc_tools = Idle /\ sc_query = Idle /\ sc_k = Idle /\ sc_out = Idle
    /\ pr_script = Idle /\ pr_args = Idle /\ pr_entries = Idle /\ pr_pos = Idle
    /\ out_before = Idle /\ out_file = Idle /\ out_buffer = Idle /\ existing_ids = Idle
    /\ processed = Idle /\ model_calls = Idle /\ pr_pc = Idle
    /\ markdown \in Documents
    /\ metadata \in {m \in [tools : MetaToolValues, tool_link : FallbackValues(<<"t">>),
                            workflows : MetaWorkflowValues, workflow : FallbackValues(<<"u">>)] :
                        /\ ~Falsy(m.tools) => m.tool_link = NoValue
                        /\ ~Falsy(m.workflows) => m.workflow = NoValue
                        /\ markdown # "mapping" => m = EmptyMetadata}
    /\ workflow_dir \in WorkflowDirs
    /\ tutorial = [tools |-> <<>>, workflows |-> <<>>, workflow_steps |-> <<>>]
    /\ lt_pc = "request"
    /\ preds = Idle /\ gold = Idle /\ k = Idle /\ hit = Idle /\ mrr = Idle /\ ndcg = Idle
    /\ gold_items = Idle /\ pred_items = Idle /\ ks = Idle /\ totals = Idle
    /\ count = Idle /\ cm_pos = Idle /\ cm_pc = Idle /\ results = Idle
    /\ args = Idle /\ fg_items = Idle /\ filtered = Idle /\ fg_pc = Idle
    /\ gq_tools = Idle /\ gq_idx = Idle /\ query_block = Idle
    /\ benchmark_items = Idle /\ gq_pc = Idle /\ gq_calls = Idle /\ raw_written = Idle

\* the body of the loop of load_tutorials for one request
LoadTutorial ==
    /\ lt_pc = "request"
    /\ LET fm == parse_front_matter(markdown, metadata)
       IN  IF \/ fm.raises
              \/ ~fm.is_mapping
              \/ parse_workflow_files_raises(workflow_dir)
           THEN /\ lt_pc' = "raised"
                /\ UNCHANGED tutorial
           ELSE /\ lt_pc' = "loaded"
                /\ tutorial' =
                      [tools |-> dedupe_preserve_order(
                                     extract_tool_ids(fm.metadata)
                                     \o extract_workflow_tools(workflow_dir)),
                       workflows |-> dedupe_preserve_order(
                                     extract_workflow_ids(fm.metadata)
                                     \o parse_workflow_files(workflow_dir).workflow_ids),
                       workflow_steps |-> parse_workflow_files(workflow_dir).workflow_steps]
    /\ UNCHANGED <<markdown, metadata, workflow_dir>>
    /\ UNCHANGED <<metricVars, computeVars, filterVars, genVars, predictVars, selectVars, retryVars, providerVars, startupVars, benchVars, datasetVars, topkVars, normalizeVars, oracleVars>>

LoadNext == LoadTutorial

SpecLoad == LoadInit /\ [][LoadNext]_vars

\* what the metadata and the workflow files offer, in the order they are read
MetaToolCandidates ==
    id_candidates(IF ~Falsy(metadata.tools) THEN metadata.tools ELSE metadata.tool_link)
MetaWorkflowCandidates ==
    id_candidates(IF ~Falsy(metadata.workflows) THEN metadata.workflows ELSE metadata.workflow)
\* no duplicates, no blank entry, and every entry of cands, stripped, present
\* in the order of its first occurrence in cands
FirstSeenOrder(out, cands) ==
    LET first(v) == CHOOSE i \in 1..Len(cands) :
                        /\ Strip(cands[i]) = v
                        /\ \A j \in 1..(i - 1) : Strip(cands[j]) # v
    IN /\ IsUnique(out)
       /\ \A i \in 1..Len(out) : out[i] # <<>> /\ Strip(out[i]) = out[i]
       /\ Range(out) = {Strip(cands[i]) : i \in 1..Len(cands)} \ {<<>>}
       /\ \A i, j \in 1..Len(out) : i < j => first(out[i]) < first(out[j])

\* C3: the tools list and the workflows list of a TutorialInfo produced by
\* load_tutorials have no duplicates and no empty or whitespace-only strings,
\* keep first-seen order, and place metadata-derived entries before
\* workflow-file-derived entries.
C3_IdListsUniqueOrdered ==
    lt_pc = "loaded" =>
        /\ FirstSeenOrder(tutorial.tools, MetaToolCandidates \o flat_tools(workflow_dir))
        /\ FirstSeenOrder(tutorial.workflows, MetaWorkflowCandidates \o stems_of(workflow_dir))

\* a padded repeat and a blank entry in the metadata, a workflow file that
\* repeats a metadata tool and adds a new one
C3_Witness ==
    /\ lt_pc = "loaded"
    /\ metadata.tools.shape = "list"
    /\ id_candidates(metadata.tools) = << <<" ", "a", " ">>, A >>
    /\ Len(workflow_dir) = 2
    /\ tutorial.tools = <<A, C>>
    /\ Len(tutorial.workflows) >= 2

\* C23: tutorial parsing never raises: whatever the text of tutorial.md (no
\* front matter, a malformed block, a block that is not a mapping), the
\* tutorial is loaded or skipped and load_tutorials goes on to the next
\* request (the workflow files being readable).
C23_ParseNeverFatal ==
    (lt_pc # "request" /\ ~parse_workflow_files_raises(workflow_dir))
        => lt_pc = "loaded"

\* the tool ids of steps taken in an order that has the numeric keys in
\* numeric order and the non-numeric keys in lexical order
KeyOrdered(out, steps) ==
    \E p \in [1..Len(steps) -> 1..Len(steps)] :
        /\ \A i, j \in 1..Len(steps) : p[i] = p[j] => i = j
        /\ \A i, j \in 1..Len(steps) :
               (i < j /\ steps[p[i]].key.digit = steps[p[j]].key.digit)
                   => steps[p[i]].key.val <= steps[p[j]].key.val
        /\ out = step_tools([i \in 1..Len(steps) |-> steps[p[i]]])

\* C24: for every workflow directory (the tutorial text being a mapping),
\* parse_workflow_files returns: each stem it maps is mapped to the tool ids
\* of a file of that stem ordered by step key, whatever mix of numeric and
\* non-numeric keys the file has, and every file with a listed step is mapped.
C24_StepsOrderedByKey ==
    (lt_pc # "request" /\ markdown = "mapping") =>
        /\ lt_pc = "loaded"
        /\ \A st \in DOMAIN tutorial.workflow_steps :
               \E i \in 1..Len(workflow_dir) :
                   /\ workflow_dir[i].stem = st /\ workflow_dir[i].kind = "ok"
                   /\ KeyOrdered(tutorial.workflow_steps[st], workflow_dir[i].steps)
        /\ \A i \in 1..Len(workflow_dir) :
               (workflow_dir[i].kind = "ok" /\ step_tools(workflow_dir[i].steps) # <<>>)
                   => workflow_dir[i].stem \in DOMAIN tutorial.workflow_steps

(***************************************************************************)
(* generate_queries_for_tutorial: gtn_benchmark/query_generator.py         *)
(* gq_tools is tutorial.tools (as load_tutorials leaves it: duplicate-free,*)
(* no blank entry); gq_idx is the position idx of the query block read     *)
(* last, query_block that block.  A block holds the fields the model       *)
(* returned: query (characters), tools (tools_is_list says whether the     *)
(* field is a list), tool_focus (<<>> when absent) and query_type (None    *)
(* when absent).  An item's metadata keeps priority, query_type and        *)
(* tool_focus (<<>>: the key is left out).                                 *)
(***************************************************************************)
QueriesPerTool == 4
decode_attempts == 2

\* the tool changes with every query: the quota of 4 is forgotten
target_idx_every_query(idx, n) == (idx - 1) % n

\* target_idx = (idx - 1) // 4 % len(tutorial.tools), 0-based
target_idx(idx, n) == ((idx - 1) \div QueriesPerTool) % n

\* offset = (idx - 1) % 4; "science_first" if offset < 2 else "tool_first"
rotation_query_type(idx) ==
    IF (idx - 1) % QueriesPerTool < 2 THEN "science_first" ELSE "tool_first"

\* [str(t).strip() for t in tools_field if str(t).strip()]
RECURSIVE stripped_nonblank(_)
stripped_nonblank(items) ==
    IF items = <<>> THEN <<>>
    ELSE (IF Strip(Head(items)) # <<>> THEN <<Strip(Head(items))>> ELSE <<>>)
         \o stripped_nonblank(Tail(items))

\* the fields of the model are used whenever the block has them
build_item_model_first(tools, idx, block) ==
    LET target_tool == tools[target_idx(idx, Len(tools)) + 1]
        rec_tools == IF block.tools_is_list THEN stripped_nonblank(block.tools)
                     ELSE IF tools # <<>> THEN <<target_tool>> ELSE <<>>
        tool_focus == IF block.tool_focus # <<>> THEN block.tool_focus
                      ELSE IF tools # <<>> THEN target_tool ELSE <<>>
        query_type == IF block.query_type # None THEN block.query_type
                      ELSE IF tools # <<>> THEN rotation_query_type(idx) ELSE "unknown"
    IN [query |-> Strip(block.query),
        tools |-> rec_tools,
        metadata |-> [priority |-> idx, query_type |-> query_type, tool_focus |-> tool_focus]]

\* the BenchmarkItem built from the block at position idx
build_item(tools, idx, block) ==
    LET target_tool == tools[target_idx(idx, Len(tools)) + 1]
        rec_tools == IF tools # <<>> THEN <<target_tool>>
                     ELSE IF block.tools_is_list THEN stripped_nonblank(block.tools)
                     ELSE <<>>
        tool_focus == IF tools # <<>> THEN target_tool ELSE block.tool_focus
        query_type == IF tools # <<>> THEN rotation_query_type(idx)
                      ELSE IF block.query_type = None THEN "unknown" ELSE block.query_type
    IN [query |-> Strip(block.query),
        tools |-> rec_tools,
        metadata |-> [priority |-> idx, query_type |-> query_type, tool_focus |-> tool_focus]]

\* ---- specification SpecGen ----
MaxTools == 2
MaxPayload == 9
TutorialToolUniverse == {A, B, C}
NoBlock == [query |-> <<>>, tools_is_list |-> FALSE, tools |-> <<>>,
            tool_focus |-> <<>>, query_type |-> None]
QueryBlocks ==
    {[query |-> <<>>, tools_is_list |-> FALSE, tools |-> <<>>,
      tool_focus |-> <<>>, query_type |-> "tool_first"],
     [query |-> Blank, tools_is_list |-> TRUE, tools |-> << <<"z">> >>,
      tool_focus |-> <<"z">>, query_type |-> None],
     [query |-> <<" ", "q">>, tools_is_list |-> TRUE, tools |-> << <<"z">>, Blank >>,
      tool_focus |-> <<"z">>, query_type |-> "tool_first"],
     [query |-> <<"q">>, tools_is_list |-> FALSE, tools |-> <<>>,
      tool_focus |-> <<>>, query_type |-> None]}

GenInit ==
    /\ or_args = Idle /\ or_gold = Idle /\ or_pos = Idle /\ or_processed = Idle
    /\ or_file = Idle /\ or_gold_items = Idle /\ or_pred_items = Idle /\ or_results = Idle
    /\ or_pc = Idle
    /\ nz_fn = Idle /\ nz_id = Idle /\ nz_once = Idle /\ nz_twice = Idle
    /\ nz_pc = Idle
    /\ tk_run = Idle /\ tk_returned = Idle /\ top_k = Idle /\ tk_line = Idle
    /\ tk_pc = Idle
    /\ ds_requested = Idle /\ ds_tutorial = Idle /\ ds_tool = Idle /\ ds_item = Idle
    /\ ds_pc = Idle
    /\ bm_args = Idle /\ bm_tutorials = Idle /\ bm_before = Idle /\ bm_file = Idle
    /\ existing_items = Idle /\ completed_tutorials = Idle /\ all_items = Idle /\ bm_pos = Idle
    /\ bm_calls = Idle /\ bm_pc = Idle
    /\ st_script = Idle /\ st_config = Idle /\ st_work = Idle /\ st_pc = Idle
    /\ rt_adapter = Idle /\ max_retries = Idle /\ attempt = Idle /\ rt_requests = Idle
    /\ rt_sleeps = Idle /\ rt_pc = Idle
    /\ pv_provider = Idle /\ pv_raw = Idle /\ pv_result = Idle
    /\ sc_tools = Idle /\ sc_query = Idle /\ sc_k = Idle /\ sc_out = Idle
    /\ pr_script = Idle /\ pr_args = Idle /\ pr_entries = Idle /\ pr_pos = Idle
    /\ out_before = Idle /\ out_file = Idle /\ out_buffer = Idle /\ existing_ids = Idle
    /\ processed = Idle /\ model_calls = Idle /\ pr_pc = Idle
    /\ gq_tools \in UniqueSeqsUpTo(TutorialToolUniverse, MaxTools)
    /\ gq_idx = 0
    /\ query_block = NoBlock
    /\ benchmark_items = <<>>
    /\ gq_pc = "call"
    /\ gq_calls = <<>>
    /\ raw_written = FALSE
    /\ preds = Idle /\ gold = Idle /\ k = Idle /\ hit = Idle /\ mrr = Idle /\ ndcg = Idle
    /\ gold_items = Idle /\ pred_items = Idle /\ ks = Idle /\ totals = Idle
    /\ count = Idle /\ cm_pos = Idle /\ cm_pc = Idle /\ results = Idle
    /\ args = Idle /\ fg_items = Idle /\ filtered = Idle /\ fg_pc = Idle
    /\ markdown = Idle /\ metadata = Idle /\ workflow_dir = Idle /\ tutorial = Idle /\ lt_pc = Idle

\* the prompts every generate_json call of the tutorial is made with
prompts(tools) ==
    [system_prompt |-> "system_prompt",
     expected_queries |-> IF Len(tools) > 0 THEN Len(tools) * QueriesPerTool ELSE QueriesPerTool]

\* the record of one generate_json call and of how it ended
call_record(tools, outcome) ==
    [system_prompt |-> prompts(tools).system_prompt,
     expected_queries |-> prompts(tools).expected_queries,
     outcome |-> outcome]

\* generate_json returns a response that holds a list under "queries" (or
\* "items"); the raw response is written
GenPayload ==
    /\ gq_pc = "call"
    /\ gq_calls' = Append(gq_calls, call_record(gq_tools, "response"))
    /\ raw_written' = TRUE
    /\ gq_pc' = "loop"
    /\ UNCHANGED <<gq_tools, gq_idx, query_block, benchmark_items>>
    /\ UNCHANGED <<metricVars, computeVars, filterVars, loadVars, predictVars, selectVars, retryVars, providerVars, startupVars, benchVars, datasetVars, topkVars, normalizeVars, oracleVars>>

\* generate_json returns a response without such a list: the raw response is
\* written and the function returns []
GenNoPayload ==
    /\ gq_pc = "call"
    /\ gq_calls' = Append(gq_calls, call_record(gq_tools, "response"))
    /\ raw_written' = TRUE
    /\ gq_pc' = "returned"
    /\ UNCHANGED <<gq_tools, gq_idx, query_block, benchmark_items>>
    /\ UNCHANGED <<metricVars, computeVars, filterVars, loadVars, predictVars, selectVars, retryVars, providerVars, startupVars, benchVars, datasetVars, topkVars, normalizeVars, oracleVars>>

\* a decode failure ends the function at once
GenDecodeFailsNoRetry ==
    /\ gq_pc = "call"
    /\ gq_calls' = Append(gq_calls, call_record(gq_tools, "decode_error"))
    /\ gq_pc' = "returned"
    /\ UNCHANGED <<gq_tools, gq_idx, query_block, benchmark_items, raw_written>>
    /\ UNCHANGED <<metricVars, computeVars, filterVars, loadVars, predictVars, selectVars, retryVars, providerVars, startupVars, benchVars, datasetVars, topkVars, normalizeVars, oracleVars>>

\* generate_json raises json.JSONDecodeError: the next attempt follows, or
\* "return []" when this was attempt decode_attempts
GenDecodeFails ==
    /\ gq_pc = "call"
    /\ gq_calls' = Append(gq_calls, call_record(gq_tools, "decode_error"))
    /\ gq_pc' = IF Len(gq_calls) + 1 = decode_attempts THEN "returned" ELSE "call"
    /\ UNCHANGED <<gq_tools, gq_idx, query_block, benchmark_items, raw_written>>
    /\ UNCHANGED <<metricVars, computeVars, filterVars, loadVars, predictVars, selectVars, retryVars, providerVars, startupVars, benchVars, datasetVars, topkVars, normalizeVars, oracleVars>>

\* generate_json raises another exception (transport, missing choices): it
\* leaves the function
GenCallRaises ==
    /\ gq_pc = "call"
    /\ gq_calls' = Append(gq_calls, call_record(gq_tools, "error"))
    /\ gq_pc' = "raised"
    /\ UNCHANGED <<gq_tools, gq_idx, query_block, benchmark_items, raw_written>>
    /\ UNCHANGED <<metricVars, computeVars, filterVars, loadVars, predictVars, selectVars, retryVars, providerVars, startupVars, benchVars, datasetVars, topkVars, normalizeVars, oracleVars>>

\* one iteration of "for idx, query_block in enumerate(payload, start=1)"
GenQueryBlock ==
    /\ gq_pc = "loop"
    /\ gq_idx < MaxPayload
    /\ \E block \in QueryBlocks :
          /\ query_block' = block
          /\ gq_idx' = gq_idx + 1
          /\ benchmark_items' =
                IF Strip(block.query) = <<>> THEN benchmark_items
                ELSE Append(benchmark_items, build_item(gq_tools, gq_idx + 1, block))
    /\ UNCHANGED <<gq_tools, gq_pc, gq_calls, raw_written>>
    /\ UNCHANGED <<metricVars, computeVars, filterVars, loadVars, predictVars, selectVars, retryVars, providerVars, startupVars, benchVars, datasetVars, topkVars, normalizeVars, oracleVars>>

\* the payload is exhausted: return benchmark_items
GenReturn ==
    /\ gq_pc = "loop"
    /\ gq_pc' = "returned"
    /\ UNCHANGED <<gq_tools, gq_idx, query_block, benchmark_items, gq_calls, raw_written>>
    /\ UNCHANGED <<metricVars, computeVars, filterVars, loadVars, predictVars, selectVars, retryVars, providerVars, startupVars, benchVars, datasetVars, topkVars, normalizeVars, oracleVars>>

GenNext ==
    \/ GenPayload \/ GenNoPayload \/ GenDecodeFails \/ GenCallRaises
    \/ GenQueryBlock \/ GenReturn

SpecGen == GenInit /\ [][GenNext]_vars

\* the items emitted for the block at position i
ItemsAt(i) == {j \in 1..Len(benchmark_items) : benchmark_items[j].metadata.priority = i}

\* C1: with N >= 1 declared tools, the item emitted for the non-blank block at
\* 1-based position i has the single tool tutorial.tools[((i-1)//4) mod N] and
\* is science_first iff (i-1) mod 4 < 2, tool_first otherwise; for every i,
\* also i > 4*N (wrap-around, nothing is rejected) and after blank blocks.
C1_Rotation ==
    gq_tools # <<>> =>
        LET N == Len(gq_tools)
        IN /\ \A j \in 1..Len(benchmark_items) :
                 LET item == benchmark_items[j]
                     i == item.metadata.priority
                     block_of_four == (i - 1) \div 4
                     within == (i - 1) - 4 * block_of_four
                 IN /\ item.tools = <<gq_tools[(block_of_four % N) + 1]>>
                    /\ item.metadata.query_type = "science_first" <=> within < 2
                    /\ item.metadata.query_type = "tool_first" <=> within >= 2
           /\ gq_idx >= 1 =>
                 Cardinality(ItemsAt(gq_idx)) = IF Strip(query_block.query) = <<>> THEN 0 ELSE 1

\* an item beyond the quota 4*N, after a skipped blank block, is assigned to
\* the first tool again
C1_Witness ==
    /\ Len(gq_tools) = 2
    /\ gq_idx = 4 * Len(gq_tools) + 1
    /\ ItemsAt(gq_idx) # {}
    /\ ItemsAt(gq_idx - 1) = {}
    /\ benchmark_items[Len(benchmark_items)].tools = <<gq_tools[1]>>
    /\ benchmark_items[Len(benchmark_items)].metadata.query_type = "science_first"

\* C2: when the tutorial declares at least one tool, every emitted item has
\* exactly one tool, the target tool of its position, a member of
\* tutorial.tools; its tool_focus is that tool and its query_type the one
\* computed from its position, whatever tools, tool_focus and query_type the
\* model returned in the block.
C2_AssignmentAuthoritative ==
    gq_tools # <<>> =>
        /\ \A j \in 1..Len(benchmark_items) :
              LET item == benchmark_items[j]
                  i == item.metadata.priority
                  target == gq_tools[(((i - 1) \div 4) % Len(gq_tools)) + 1]
              IN /\ Len(item.tools) = 1
                 /\ item.tools[1] = target
                 /\ item.tools[1] \in Range(gq_tools)
                 /\ item.metadata.tool_focus = target
                 /\ item.metadata.query_type =
                        IF (i - 1) % 4 \in {0, 1} THEN "science_first" ELSE "tool_first"
        /\ \A j \in ItemsAt(gq_idx) :
              LET item == benchmark_items[j]
              IN /\ query_block.tools_is_list =>
                        \A t \in Range(query_block.tools) \ Range(gq_tools) :
                            t \notin Range(item.tools)
                 /\ item.metadata.query_type = rotation_query_type(gq_idx)

\* the model named another tool and another query type for the block
C2_Witness ==
    /\ gq_tools # <<>>
    /\ ItemsAt(gq_idx) # {}
    /\ query_block.tools_is_list
    /\ query_block.tool_focus # <<>> /\ query_block.tool_focus \notin Range(gq_tools)
    /\ query_block.query_type = "tool_first"
    /\ benchmark_items[Len(benchmark_items)].metadata.query_type = "science_first"
    /\ benchmark_items[Len(benchmark_items)].metadata.tool_focus = gq_tools[1]

\* C16: a JSON-decode failure of the response is followed by exactly one
\* further generate_json call with the same system and user prompt; when that
\* one fails to decode too, the function returns no item, raises nothing and
\* writes no raw-response file; no tutorial gets more than 2 calls.
C16_DecodeRetryOnce ==
    /\ Len(gq_calls) <= 2
    /\ \A c \in 1..Len(gq_calls) :
          /\ gq_calls[c].system_prompt = prompts(gq_tools).system_prompt
          /\ gq_calls[c].expected_queries = prompts(gq_tools).expected_queries
    /\ \A c \in 1..Len(gq_calls) :
          gq_calls[c].outcome = "decode_error" =>
              IF c = 1 THEN Len(gq_calls) = 2 \/ gq_pc = "call"
              ELSE /\ gq_calls[1].outcome = "decode_error"
                   /\ gq_pc = "returned"
                   /\ benchmark_items = <<>>
                   /\ ~raw_written
    /\ Len(gq_calls) = 2 => gq_calls[1].outcome = "decode_error"

\* both calls failed to decode
C16_Witness ==
    /\ Len(gq_calls) = 2
    /\ gq_calls[1].outcome = "decode_error" /\ gq_calls[2].outcome = "decode_error"
    /\ gq_pc = "returned"
    /\ gq_tools # <<>>

(***************************************************************************)
(* A prediction run: generate_predictions of scripts/eval/run_v1_agent_eval *)
(* and main of scripts/benchmark/generate_llm_predictions.                 *)
(* pr_entries holds the ids of the gold items (queries) in file order, ""  *)
(* for an entry without a usable id; pr_pos is the position of the entry   *)
(* the loop has reached.  out_before is the predictions file as the run    *)
(* found it, out_file the file on disk, out_buffer what was written to the *)
(* handle and not flushed yet; a line is [id].  model_calls lists the ids  *)
(* for which retrieval or the model was invoked.  pr_args.resume is        *)
(* --resume or --skip-existing, pr_args.max_queries is 0 when not given.   *)
(***************************************************************************)
RunV1 == "run_v1_agent_eval"
LlmPredictions == "generate_llm_predictions"

\* {item["id"] for item in load_jsonl(path)}
ids_of(lines) == {lines[i].id : i \in 1..Len(lines)}

\* every entry with an id is skipped only when the id is missing
skip_entry_missing_id(do_resume, qid, existing) == qid = ""

\* "if not qid: continue" and "if do_resume and qid in existing_ids: continue"
skip_entry(do_resume, qid, existing) ==
    \/ qid = ""
    \/ do_resume /\ qid \in existing

\* the loop goes one item beyond the cap
cap_reached_one_late(max_queries, n) == max_queries # 0 /\ n > max_queries

\* "if args.max_queries and processed >= args.max_queries: break"
cap_reached(max_queries, n) == max_queries # 0 /\ n >= max_queries

\* ---- specification SpecPredict ----
MaxRunEntries == 3
RunIds == {"x", "y"}
PriorFiles == {<<>>, <<[id |-> "x"]>>, <<[id |-> "y"], [id |-> "x"]>>,
               <<[id |-> "x"], [id |-> "x"]>>}
MaxQueriesValues == {0, 1, 2}
RunKinds == {<<RunV1, "oracle">>, <<RunV1, "llm">>, <<LlmPredictions, "llm">>}

PredictInit ==
    /\ or_args = Idle /\ or_gold = Idle /\ or_pos = Idle /\ or_processed = Idle
    /\ or_file = Idle /\ or_gold_items = Idle /\ or_pred_items = Idle /\ or_results = Idle
    /\ or_pc = Idle
    /\ nz_fn = Idle /\ nz_id = Idle /\ nz_once = Idle /\ nz_twice = Idle
    /\ nz_pc = Idle
    /\ tk_run = Idle /\ tk_returned = Idle /\ top_k = Idle /\ tk_line = Idle
    /\ tk_pc = Idle
    /\ ds_requested = Idle /\ ds_tutorial = Idle /\ ds_tool = Idle /\ ds_item = Idle
    /\ ds_pc = Idle
    /\ bm_args = Idle /\ bm_tutorials = Idle /\ bm_before = Idle /\ bm_file = Idle
    /\ existing_items = Idle /\ completed_tutorials = Idle /\ all_items = Idle /\ bm_pos = Idle
    /\ bm_calls = Idle /\ bm_pc = Idle
    /\ st_script = Idle /\ st_config = Idle /\ st_work = Idle /\ st_pc = Idle
    /\ rt_adapter = Idle /\ max_retries = Idle /\ attempt = Idle /\ rt_requests = Idle
    /\ rt_sleeps = Idle /\ rt_pc = Idle
    /\ pv_provider = Idle /\ pv_raw = Idle /\ pv_result = Idle
    /\ sc_tools = Idle /\ sc_query = Idle /\ sc_k = Idle /\ sc_out = Idle
    /\ \E kind \in RunKinds :
          /\ pr_script = kind[1]
          /\ pr_args \in [agent : {kind[2]}, resume : BOOLEAN, max_queries : MaxQueriesValues]
    /\ pr_entries \in SeqsUpTo(RunIds \cup {""}, MaxRunEntries)
    /\ pr_pos = 0
    /\ out_before \in PriorFiles
    /\ out_file = out_before
    /\ out_buffer = <<>>
    /\ existing_ids = {}
    /\ processed = 0
    /\ model_calls = <<>>
    /\ pr_pc = "start"
    /\ preds = Idle /\ gold = Idle /\ k = Idle /\ hit = Idle /\ mrr = Idle /\ ndcg = Idle
    /\ gold_items = Idle /\ pred_items = Idle /\ ks = Idle /\ totals = Idle
    /\ count = Idle /\ cm_pos = Idle /\ cm_pc = Idle /\ results = Idle
    /\ args = Idle /\ fg_items = Idle /\ filtered = Idle /\ fg_pc = Idle
    /\ markdown = Idle /\ metadata = Idle /\ workflow_dir = Idle /\ tutorial = Idle /\ lt_pc = Idle
    /\ gq_tools = Idle /\ gq_idx = Idle /\ query_block = Idle
    /\ benchmark_items = Idle /\ gq_pc = Idle /\ gq_calls = Idle /\ raw_written = Idle

\* existing_ids = _load_existing_ids(output) if do_resume else set()
PredLoadExisting ==
    /\ pr_pc = "start"
    /\ existing_ids' = IF pr_args.resume THEN ids_of(out_file) ELSE {}
    /\ pr_pc' = "next"
    /\ UNCHANGED <<pr_script, pr_args, pr_entries, pr_pos, out_before, out_file, out_buffer,
                   processed, model_calls>>
    /\ UNCHANGED <<metricVars, computeVars, filterVars, loadVars, genVars, selectVars, retryVars, providerVars, startupVars, benchVars, datasetVars, topkVars, normalizeVars, oracleVars>>

\* the entry has no id, or resume is on and its id is already present: continue
PredSkipEntry ==
    /\ pr_pc = "next"
    /\ pr_pos < Len(pr_entries)
    /\ skip_entry(pr_args.resume, pr_entries[pr_pos + 1], existing_ids)
    /\ pr_pos' = pr_pos + 1
    /\ UNCHANGED <<pr_script, pr_args, pr_entries, out_before, out_file, out_buffer,
                   existing_ids, processed, model_calls, pr_pc>>
    /\ UNCHANGED <<metricVars, computeVars, filterVars, loadVars, genVars, selectVars, retryVars, providerVars, startupVars, benchVars, datasetVars, topkVars, normalizeVars, oracleVars>>

\* max-queries items were processed: break
PredCapReached ==
    /\ pr_pc = "next"
    /\ pr_pos < Len(pr_entries)
    /\ ~skip_entry(pr_args.resume, pr_entries[pr_pos + 1], existing_ids)
    /\ cap_reached(pr_args.max_queries, processed)
    /\ pr_pc' = "done"
    /\ UNCHANGED <<pr_script, pr_args, pr_entries, pr_pos, out_before, out_file, out_buffer,
                   existing_ids, processed, model_calls>>
    /\ UNCHANGED <<metricVars, computeVars, filterVars, loadVars, genVars, selectVars, retryVars, providerVars, startupVars, benchVars, datasetVars, topkVars, normalizeVars, oracleVars>>

\* the predictions of the entry are obtained (oracle: from the entry itself)
PredCallModel ==
    /\ pr_pc = "next"
    /\ pr_pos < Len(pr_entries)
    /\ ~skip_entry(pr_args.resume, pr_entries[pr_pos + 1], existing_ids)
    /\ ~cap_reached(pr_args.max_queries, processed)
    /\ pr_pos' = pr_pos + 1
    /\ model_calls' = IF pr_args.agent = "oracle" THEN model_calls
                      ELSE Append(model_calls, pr_entries[pr_pos + 1])
    /\ pr_pc' = "write"
    /\ UNCHANGED <<pr_script, pr_args, pr_entries, out_before, out_file, out_buffer,
                   existing_ids, processed>>
    /\ UNCHANGED <<metricVars, computeVars, filterVars, loadVars, genVars, selectVars, retryVars, providerVars, startupVars, benchVars, datasetVars, topkVars, normalizeVars, oracleVars>>

\* the model call or the parsing of its answer raises: generate_llm_predictions
\* logs and continues, generate_predictions has no handler
PredCallFails ==
    /\ pr_pc = "next"
    /\ pr_pos < Len(pr_entries)
    /\ ~skip_entry(pr_args.resume, pr_entries[pr_pos + 1], existing_ids)
    /\ ~cap_reached(pr_args.max_queries, processed)
    /\ pr_args.agent = "llm"
    /\ pr_pos' = pr_pos + 1
    /\ model_calls' = Append(model_calls, pr_entries[pr_pos + 1])
    /\ pr_pc' = IF pr_script = LlmPredictions THEN "next" ELSE "raised"
    /\ UNCHANGED <<pr_script, pr_args, pr_entries, out_before, out_file, out_buffer,
                   existing_ids, processed>>
    /\ UNCHANGED <<metricVars, computeVars, filterVars, loadVars, genVars, selectVars, retryVars, providerVars, startupVars, benchVars, datasetVars, topkVars, normalizeVars, oracleVars>>

\* out_handle.write(json.dumps({"id": qid, "predictions": ...}) + "\n")
PredWrite ==
    /\ pr_pc = "write"
    /\ out_buffer' = Append(out_buffer, [id |-> pr_entries[pr_pos]])
    /\ pr_pc' = "flush"
    /\ UNCHANGED <<pr_script, pr_args, pr_entries, pr_pos, out_before, out_file,
                   existing_ids, processed, model_calls>>
    /\ UNCHANGED <<metricVars, computeVars, filterVars, loadVars, genVars, selectVars, retryVars, providerVars, startupVars, benchVars, datasetVars, topkVars, normalizeVars, oracleVars>>

\* the handle opened with mode "w" replaces the file by what was written
PredFlushTruncating ==
    /\ pr_pc = "flush"
    /\ out_file' = out_buffer
    /\ out_buffer' = <<>>
    /\ existing_ids' = existing_ids \cup {pr_entries[pr_pos]}
    /\ processed' = processed + 1
    /\ pr_pc' = "next"
    /\ UNCHANGED <<pr_script, pr_args, pr_entries, pr_pos, out_before, model_calls>>
    /\ UNCHANGED <<metricVars, computeVars, filterVars, loadVars, genVars, selectVars, retryVars, providerVars, startupVars, benchVars, datasetVars, topkVars, normalizeVars, oracleVars>>

\* out_handle.flush() (the end of the with block in _write_prediction), then
\* existing_ids.add(qid) and processed += 1
PredFlush ==
    /\ pr_pc = "flush"
    /\ out_file' = out_file \o out_buffer
    /\ out_buffer' = <<>>
    /\ existing_ids' = existing_ids \cup {pr_entries[pr_pos]}
    /\ processed' = processed + 1
    /\ pr_pc' = "next"
    /\ UNCHANGED <<pr_script, pr_args, pr_entries, pr_pos, out_before, model_calls>>
    /\ UNCHANGED <<metricVars, computeVars, filterVars, loadVars, genVars, selectVars, retryVars, providerVars, startupVars, benchVars, datasetVars, topkVars, normalizeVars, oracleVars>>

\* the loop is exhausted
PredLoopEnd ==
    /\ pr_pc = "next"
    /\ pr_pos = Len(pr_entries)
    /\ pr_pc' = "done"
    /\ UNCHANGED <<pr_script, pr_args, pr_entries, pr_pos, out_before, out_file, out_buffer,
                   existing_ids, processed, model_calls>>
    /\ UNCHANGED <<metricVars, computeVars, filterVars, loadVars, genVars, selectVars, retryVars, providerVars, startupVars, benchVars, datasetVars, topkVars, normalizeVars, oracleVars>>

\* the process is killed: what was not flushed is lost
PredCrash ==
    /\ pr_pc \in {"start", "next", "write", "flush"}
    /\ out_buffer' = <<>>
    /\ pr_pc' = "crashed"
    /\ UNCHANGED <<pr_script, pr_args, pr_entries, pr_pos, out_before, out_file,
                   existing_ids, processed, model_calls>>
    /\ UNCHANGED <<metricVars, computeVars, filterVars, loadVars, genVars, selectVars, retryVars, providerVars, startupVars, benchVars, datasetVars, topkVars, normalizeVars, oracleVars>>

PredictNext ==
    \/ PredLoadExisting \/ PredSkipEntry \/ PredCapReached \/ PredCallModel
    \/ PredCallFails \/ PredWrite \/ PredFlush \/ PredLoopEnd \/ PredCrash

SpecPredict == PredictInit /\ [][PredictNext]_vars

\* the number of lines of the file with id x
LinesWithId(lines, x) == Cardinality({i \in 1..Len(lines) : lines[i].id = x})

\* the lines appended by this run
NewLines == SubSeq(out_file, Len(out_before) + 1, Len(out_file))

\* ids is a subsequence of the first n entries
RECURSIVE InEntryOrder(_, _, _)
InEntryOrder(ids, from, n) ==
    IF ids = <<>> THEN TRUE
    ELSE IF from > n THEN FALSE
    ELSE IF pr_entries[from] = Head(ids) THEN InEntryOrder(Tail(ids), from + 1, n)
    ELSE InEntryOrder(ids, from + 1, n)

ValidEntryIds == {pr_entries[i] : i \in 1..Len(pr_entries)} \ {""}

\* C11: with resume enabled, an id x that the output file held before the run
\* gets no model or retrieval call and no new line (buffered or on disk), so
\* the number of lines with id x is unchanged; a run over a file that already
\* holds every id writes nothing.
C11_ResumeSkipsExisting ==
    pr_pc # "start" /\ pr_args.resume =>
        /\ \A x \in ids_of(out_before) :
              /\ \A c \in 1..Len(model_calls) : model_calls[c] # x
              /\ \A b \in 1..Len(out_buffer) : out_buffer[b].id # x
              /\ LinesWithId(out_file, x) = LinesWithId(out_before, x)
        /\ ValidEntryIds \subseteq ids_of(out_before) =>
              out_file = out_before /\ out_buffer = <<>> /\ model_calls = <<>>

\* a resumed run passed over the present id x and wrote the missing id y
C11_Witness ==
    /\ pr_args.resume /\ pr_pc = "done"
    /\ out_before = <<[id |-> "x"]>>
    /\ pr_entries = <<"x", "y", "x">>
    /\ out_file = <<[id |-> "x"], [id |-> "y"]>>
    /\ model_calls = <<"y">>

\* C12: at every point of a run, also after a crash, the file on disk is its
\* content before the run followed by one line per item processed so far, in
\* processing order; and when the loop turns to the next item (before its
\* model call) nothing is left unflushed.
C12_AppendOnlyDurable ==
    pr_pc # "start" =>
        /\ Len(out_file) = Len(out_before) + processed
        /\ SubSeq(out_file, 1, Len(out_before)) = out_before
        /\ InEntryOrder([i \in 1..Len(NewLines) |-> NewLines[i].id], 1,
                        IF pr_pc \in {"write", "flush"} THEN pr_pos - 1 ELSE pr_pos)
        /\ pr_pc \in {"next", "write"} => out_buffer = <<>>

\* a run over a non-empty file is killed after it wrote two items
C12_Witness ==
    /\ pr_pc = "crashed"
    /\ out_before = <<[id |-> "y"], [id |-> "x"]>>
    /\ processed = 2
    /\ pr_pos = 3
    /\ out_file = out_before \o <<[id |-> "x"], [id |-> "y"]>>

\* C13: with max-queries = N >= 1 a run writes at most N lines and starts no
\* item once N were processed; skipped items and failed model calls consume
\* nothing of N.
C13_MaxQueriesCap ==
    pr_pc # "start" /\ pr_args.max_queries >= 1 =>
        /\ processed <= pr_args.max_queries
        /\ Len(out_file) - Len(out_before) <= pr_args.max_queries
        /\ pr_pc \in {"write", "flush"} => processed < pr_args.max_queries
        /\ processed = Len(NewLines)

\* N = 1: one entry was skipped by resume, one model call failed, the third
\* entry was written and the run stopped
C13_Witness ==
    /\ pr_script = LlmPredictions
    /\ pr_args.max_queries = 1 /\ pr_args.resume
    /\ out_before = <<[id |-> "x"]>>
    /\ pr_entries = <<"x", "y", "y">>
    /\ model_calls = <<"y", "y">>
    /\ processed = 1
    /\ pr_pc = "next"

\* C20: a failure of one item's model call is caught and the run goes on to
\* the remaining items: no run ends by an exception of a model call.
C20_FailureIsolated ==
    pr_pc # "raised"

(***************************************************************************)
(* select_candidates and build_inverted_index:                             *)
(* scripts/eval/run_v1_agent_eval.py                                       *)
(* A text is the sequence of the parts that re.split(r"[^a-z0-9]+") leaves *)
(* of it, before lowercasing.  The catalog sc_tools is a sequence of tools *)
(* [tool_id, name]; positions are 1-based here (idx + 1 of the code).      *)
(* Weights are fixed-point: IdfUnit is 1.0.  sc_out lists what the calls   *)
(* made so far returned.                                                   *)
(***************************************************************************)
STOPWORDS ==
    {"a", "an", "and", "are", "as", "at", "be", "before", "by", "can", "data", "dataset",
     "do", "for", "from", "have", "how", "i", "in", "into", "is", "it", "need", "of", "on",
     "or", "run", "should", "that", "the", "this", "to", "tool", "use", "using", "what",
     "which", "with"}

\* text.lower() on the parts that occur
lower(part) ==
    CASE part = "Trim" -> "trim"
      [] part = "READS" -> "reads"
      [] part = "From" -> "from"
      [] OTHER -> part

\* len(part) < 2 on the parts that occur
shorter_than_2(part) == part \in {"", "x", "5"}

RECURSIVE tokenize(_)
tokenize(parts) ==
    IF parts = <<>> THEN <<>>
    ELSE LET part == lower(Head(parts))
         IN (IF shorter_than_2(part) \/ part \in STOPWORDS THEN <<>> ELSE <<part>>)
            \o tokenize(Tail(parts))

\* " ".join([tool_id, name, desc]), as parts
tool_text(tool) == <<tool.tool_id>> \o tool.name

\* postings[tok]: the positions of the tools whose text holds tok, ascending
RECURSIVE postings_from(_, _, _)
postings_from(tools, tok, idx) ==
    IF idx > Len(tools) THEN <<>>
    ELSE (IF tok \in Range(tokenize(tool_text(tools[idx]))) THEN <<idx>> ELSE <<>>)
         \o postings_from(tools, tok, idx + 1)
postings(tools, tok) == postings_from(tools, tok, 1)

IdfUnit == 1000000

\* math.log(num / den) in units of 1/IdfUnit, for the quotients that occur
math_log(num, den) ==
    CASE num = den -> 0
      [] num = 3 /\ den = 2 -> 405465
      [] num = 4 /\ den = 2 -> 693147
      [] num = 4 /\ den = 3 -> 287682
      [] num = 5 /\ den = 2 -> 916291
      [] num = 5 /\ den = 3 -> 510826
      [] num = 5 /\ den = 4 -> 223144

\* idf[tok] = 1.0 + log((n + 1) / (freq + 1)), n = max(1, len(tools))
idf(tools, tok) ==
    LET n == Max(1, Len(tools))
        freq == Len(postings(tools, tok))
    IN IdfUnit + (IF freq <= 0 THEN 0 ELSE math_log(n + 1, freq + 1))

\* the scores dict after the loop over the query tokens
RECURSIVE scores_after(_, _, _)
scores_after(tokens, tools, scores) ==
    IF tokens = <<>> THEN scores
    ELSE LET tok == Head(tokens)
             tool_idxs == Range(postings(tools, tok))
             weight == idf(tools, tok)
             added == [idx \in DOMAIN scores \cup tool_idxs |->
                          (IF idx \in DOMAIN scores THEN scores[idx] ELSE 0)
                          + (IF idx \in tool_idxs THEN weight ELSE 0)]
         IN scores_after(Tail(tokens), tools, added)

\* ties go to the later catalog position
RECURSIVE ranked_ties_reversed(_)
ranked_ties_reversed(scores) ==
    IF DOMAIN scores = {} THEN <<>>
    ELSE LET best == CHOOSE i \in DOMAIN scores :
                        \A j \in DOMAIN scores \ {i} :
                            scores[i] > scores[j] \/ (scores[i] = scores[j] /\ i > j)
         IN <<best>> \o ranked_ties_reversed([j \in DOMAIN scores \ {best} |-> scores[j]])

\* sorted(scores.items(), key=lambda kv: (-kv[1], kv[0]))
RECURSIVE ranked(_)
ranked(scores) ==
    IF DOMAIN scores = {} THEN <<>>
    ELSE LET best == CHOOSE i \in DOMAIN scores :
                        \A j \in DOMAIN scores \ {i} :
                            scores[i] > scores[j] \/ (scores[i] = scores[j] /\ i < j)
         IN <<best>> \o ranked([j \in DOMAIN scores \ {best} |-> scores[j]])

\* without the fallback an empty scores dict gives no candidate
select_candidates_no_fallback(query, tools, candidate_k) ==
    LET order == PySlicePrefix(ranked(scores_after(tokenize(query), tools, <<>>)), candidate_k)
    IN [i \in 1..Len(order) |-> tools[order[i]]]

select_candidates(query, tools, candidate_k) ==
    LET scores == scores_after(tokenize(query), tools, <<>>)
        order == PySlicePrefix(ranked(scores), candidate_k)
    IN IF DOMAIN scores = {} THEN PySlicePrefix(tools, candidate_k)
       ELSE [i \in 1..Len(order) |-> tools[order[i]]]

\* ---- specification SpecSelect ----
MaxCatalog == 3
MaxCandidateK == 2
MaxCalls == 2
ToolIdAt == <<"t1", "t2", "t3", "t4", "t5">>
ToolNames == {<<"align", "READS">>, <<"Trim", "adapters">>, <<"trim", "x", "reads">>,
              <<"the", "tool">>, <<>>}
Queries == {<<"Trim", "adapters", "From", "reads">>, <<"the", "x", "of", "5">>,
            <<"unknown", "words">>, <<>>, <<"reads", "reads", "align">>, <<"t2", "x">>,
            <<"reads">>, <<"trim", "data", "align">>}

SelectInit ==
    /\ or_args = Idle /\ or_gold = Idle /\ or_pos = Idle /\ or_processed = Idle
    /\ or_file = Idle /\ or_gold_items = Idle /\ or_pred_items = Idle /\ or_results = Idle
    /\ or_pc = Idle
    /\ nz_fn = Idle /\ nz_id = Idle /\ nz_once = Idle /\ nz_twice = Idle
    /\ nz_pc = Idle
    /\ tk_run = Idle /\ tk_returned = Idle /\ top_k = Idle /\ tk_line = Idle
    /\ tk_pc = Idle
    /\ ds_requested = Idle /\ ds_tutorial = Idle /\ ds_tool = Idle /\ ds_item = Idle
    /\ ds_pc = Idle
    /\ bm_args = Idle /\ bm_tutorials = Idle /\ bm_before = Idle /\ bm_file = Idle
    /\ existing_items = Idle /\ completed_tutorials = Idle /\ all_items = Idle /\ bm_pos = Idle
    /\ bm_calls = Idle /\ bm_pc = Idle
    /\ st_script = Idle /\ st_config = Idle /\ st_work = Idle /\ st_pc = Idle
    /\ rt_adapter = Idle /\ max_retries = Idle /\ attempt = Idle /\ rt_requests = Idle
    /\ rt_sleeps = Idle /\ rt_pc = Idle
    /\ pv_provider = Idle /\ pv_raw = Idle /\ pv_result = Idle
    /\ \E names \in SeqsUpTo(ToolNames, MaxCatalog) :
          sc_tools = [i \in 1..Len(names) |-> [tool_id |-> ToolIdAt[i], name |-> names[i]]]
    /\ sc_query \in Queries
    /\ sc_k \in 0..MaxCandidateK
    /\ sc_out = <<>>
    /\ preds = Idle /\ gold = Idle /\ k = Idle /\ hit = Idle /\ mrr = Idle /\ ndcg = Idle
    /\ gold_items = Idle /\ pred_items = Idle /\ ks = Idle /\ totals = Idle
    /\ count = Idle /\ cm_pos = Idle /\ cm_pc = Idle /\ results = Idle
    /\ args = Idle /\ fg_items = Idle /\ filtered = Idle /\ fg_pc = Idle
    /\ markdown = Idle /\ metadata = Idle /\ workflow_dir = Idle /\ tutorial = Idle /\ lt_pc = Idle
    /\ gq_tools = Idle /\ gq_idx = Idle /\ query_block = Idle
    /\ benchmark_items = Idle /\ gq_pc = Idle /\ gq_calls = Idle /\ raw_written = Idle
    /\ pr_script = Idle /\ pr_args = Idle /\ pr_entries = Idle /\ pr_pos = Idle
    /\ out_before = Idle /\ out_file = Idle /\ out_buffer = Idle /\ existing_ids = Idle
    /\ processed = Idle /\ model_calls = Idle /\ pr_pc = Idle

\* one call select_candidates(query, tools, postings, idf, candidate_k) with
\* the index build_inverted_index made of the catalog
SelectCandidates ==
    /\ Len(sc_out) < MaxCalls
    /\ sc_out' = Append(sc_out, select_candidates(sc_query, sc_tools, sc_k))
    /\ UNCHANGED <<sc_tools, sc_query, sc_k>>
    /\ UNCHANGED <<metricVars, computeVars, filterVars, loadVars, genVars, predictVars, retryVars, providerVars, startupVars, benchVars, datasetVars, topkVars, normalizeVars, oracleVars>>

SelectNext == SelectCandidates

SpecSelect == SelectInit /\ [][SelectNext]_vars

\* the catalog positions whose text shares a token with the query
MatchedPositions ==
    {i \in 1..Len(sc_tools) :
        Range(tokenize(sc_query)) \cap Range(tokenize(tool_text(sc_tools[i]))) # {}}

\* C14: when no token of the query occurs in the postings, every call returns
\* exactly the first K catalog entries in catalog order (all of them when the
\* catalog has fewer than K).
C14_FallbackFirstK ==
    MatchedPositions = {} =>
        \A c \in 1..Len(sc_out) :
            /\ Len(sc_out[c]) = Min(sc_k, Len(sc_tools))
            /\ \A i \in 1..Len(sc_out[c]) : sc_out[c][i] = sc_tools[i]
            /\ sc_out[c] = sc_out[1]

\* a query of stop-words and short parts only, asked twice of a catalog larger
\* than K
C14_Witness ==
    /\ sc_query = <<"the", "x", "of", "5">>
    /\ Len(sc_tools) = 3 /\ sc_k = 2
    /\ Len(sc_out) = 2
    /\ sc_out[2] = SubSeq(sc_tools, 1, 2)

\* the summed idf weight of the query tokens that the tool at pos matches
RECURSIVE SummedIdf(_, _)
SummedIdf(tokens, pos) ==
    IF tokens = <<>> THEN 0
    ELSE (IF Head(tokens) \in Range(tokenize(tool_text(sc_tools[pos])))
          THEN idf(sc_tools, Head(tokens)) ELSE 0)
         + SummedIdf(Tail(tokens), pos)

RanksBefore(p, q) ==
    LET sp == SummedIdf(tokenize(sc_query), p)
        sq == SummedIdf(tokenize(sc_query), q)
    IN sp > sq \/ (sp = sq /\ p < q)

PositionOf(tool) == CHOOSE i \in 1..Len(sc_tools) : sc_tools[i] = tool

\* C15: when at least one query token matches, every call returns only
\* catalog entries that share a token with the query, each at most once, by
\* descending summed idf weight with ties by ascending catalog position, and
\* cut to K entries: the K best of the matching entries.
C15_RankedTopK ==
    MatchedPositions # {} =>
        \A c \in 1..Len(sc_out) :
            LET out == sc_out[c]
                pos == [i \in 1..Len(out) |-> PositionOf(out[i])]
            IN /\ Len(out) = Min(sc_k, Cardinality(MatchedPositions))
               /\ \A i \in 1..Len(out) : pos[i] \in MatchedPositions
               /\ \A i, j \in 1..Len(out) : i < j => RanksBefore(pos[i], pos[j])
               /\ \A q \in MatchedPositions \ Range(pos) :
                     \A i \in 1..Len(out) : RanksBefore(pos[i], q)

\* the scenario: catalog [t1 'align reads', t2 'trim adapters'], query
\* 'trim adapters from reads', K = 1 returns [t2]
C15_Witness ==
    /\ sc_tools = <<[tool_id |-> "t1", name |-> <<"align", "READS">>],
                    [tool_id |-> "t2", name |-> <<"Trim", "adapters">>]>>
    /\ sc_query = <<"Trim", "adapters", "From", "reads">>
    /\ sc_k = 1
    /\ sc_out = << <<sc_tools[2]>> >>

(***************************************************************************)
(* The retry loops around a model request: JetstreamClient._post           *)
(* (gtn_benchmark/llm_client.py), _post_with_retries with _http_post_json  *)
(* (scripts/llm/llm_providers.py) and call_llm                             *)
(* (scripts/benchmark/generate_llm_predictions.py).                        *)
(* rt_requests lists the HTTP requests made, each [via, status]; status 0  *)
(* stands for a request that got no HTTP answer.  rt_sleeps lists the      *)
(* time.sleep delays in seconds, attempt is the loop variable.             *)
(***************************************************************************)
JetstreamPostLoop == "JetstreamClient._post"
PostWithRetriesLoop == "_post_with_retries"
CallLlmLoop == "call_llm"

RECURSIVE Pow2(_)
Pow2(n) == IF n = 0 THEN 1 ELSE 2 * Pow2(n - 1)

\* how _http_post_json ends when urlopen gets status and the curl fallback
\* gets curl_status: HTTPError is a URLError, so both reach the fallback, and
\* a failing "curl -f" makes check_output raise CalledProcessError
http_post_json(status, curl_status) ==
    IF status = 200 THEN "returned"
    ELSE IF curl_status = 200 THEN "returned"
    ELSE "CalledProcessError"

\* ---- specification SpecRetry ----
MaxRetries == 4
Statuses == {200, 429, 500, 501, 404, 0}

RetryInit ==
    /\ or_args = Idle /\ or_gold = Idle /\ or_pos = Idle /\ or_processed = Idle
    /\ or_file = Idle /\ or_gold_items = Idle /\ or_pred_items = Idle /\ or_results = Idle
    /\ or_pc = Idle
    /\ nz_fn = Idle /\ nz_id = Idle /\ nz_once = Idle /\ nz_twice = Idle
    /\ nz_pc = Idle
    /\ tk_run = Idle /\ tk_returned = Idle /\ top_k = Idle /\ tk_line = Idle
    /\ tk_pc = Idle
    /\ ds_requested = Idle /\ ds_tutorial = Idle /\ ds_tool = Idle /\ ds_item = Idle
    /\ ds_pc = Idle
    /\ bm_args = Idle /\ bm_tutorials = Idle /\ bm_before = Idle /\ bm_file = Idle
    /\ existing_items = Idle /\ completed_tutorials = Idle /\ all_items = Idle /\ bm_pos = Idle
    /\ bm_calls = Idle /\ bm_pc = Idle
    /\ st_script = Idle /\ st_config = Idle /\ st_work = Idle /\ st_pc = Idle
    /\ rt_adapter \in {JetstreamPostLoop, PostWithRetriesLoop, CallLlmLoop}
    /\ max_retries \in 1..MaxRetries
    /\ attempt = 1
    /\ rt_requests = <<>>
    /\ rt_sleeps = <<>>
    /\ rt_pc = "attempt"
    /\ pv_provider = Idle /\ pv_raw = Idle /\ pv_result = Idle
    /\ sc_tools = Idle /\ sc_query = Idle /\ sc_k = Idle /\ sc_out = Idle
    /\ pr_script = Idle /\ pr_args = Idle /\ pr_entries = Idle /\ pr_pos = Idle
    /\ out_before = Idle /\ out_file = Idle /\ out_buffer = Idle /\ existing_ids = Idle
    /\ processed = Idle /\ model_calls = Idle /\ pr_pc = Idle
    /\ preds = Idle /\ gold = Idle /\ k = Idle /\ hit = Idle /\ mrr = Idle /\ ndcg = Idle
    /\ gold_items = Idle /\ pred_items = Idle /\ ks = Idle /\ totals = Idle
    /\ count = Idle /\ cm_pos = Idle /\ cm_pc = Idle /\ results = Idle
    /\ args = Idle /\ fg_items = Idle /\ filtered = Idle /\ fg_pc = Idle
    /\ markdown = Idle /\ metadata = Idle /\ workflow_dir = Idle /\ tutorial = Idle /\ lt_pc = Idle
    /\ gq_tools = Idle /\ gq_idx = Idle /\ query_block = Idle
    /\ benchmark_items = Idle /\ gq_pc = Idle /\ gq_calls = Idle /\ raw_written = Idle

\* one iteration of the loop of JetstreamClient._post: every
\* requests.RequestException (HTTP error status, no answer) is retried
JetstreamPost ==
    /\ rt_adapter = JetstreamPostLoop
    /\ rt_pc = "attempt"
    /\ \E status \in Statuses :
          /\ rt_requests' = Append(rt_requests, [via |-> "requests", status |-> status])
          /\ IF status = 200
             THEN rt_pc' = "returned" /\ UNCHANGED <<attempt, rt_sleeps>>
             ELSE IF attempt = max_retries
             THEN rt_pc' = "raised" /\ UNCHANGED <<attempt, rt_sleeps>>
             ELSE /\ rt_sleeps' = Append(rt_sleeps, Pow2(attempt))
                  /\ attempt' = attempt + 1
                  /\ UNCHANGED rt_pc
    /\ UNCHANGED <<rt_adapter, max_retries>>
    /\ UNCHANGED <<metricVars, computeVars, filterVars, loadVars, genVars, predictVars, selectVars, providerVars, startupVars, benchVars, datasetVars, topkVars, normalizeVars, oracleVars>>

\* one iteration of the loop of _post_with_retries around _http_post_json
PostWithRetries ==
    /\ rt_adapter = PostWithRetriesLoop
    /\ rt_pc = "attempt"
    /\ \E status \in Statuses, curl_status \in Statuses :
          LET outcome == http_post_json(status, curl_status)
              retry == /\ attempt < max_retries
                       /\ \/ outcome = "HTTPError" /\ status \in {429, 500, 502, 503, 504}
                          \/ outcome = "URLError"
          IN /\ rt_requests' = rt_requests \o <<[via |-> "urllib", status |-> status]>>
                                \o (IF status = 200 THEN <<>>
                                    ELSE <<[via |-> "curl", status |-> curl_status]>>)
             /\ IF outcome = "returned"
                THEN rt_pc' = "returned" /\ UNCHANGED <<attempt, rt_sleeps>>
                ELSE IF retry
                THEN /\ rt_sleeps' = Append(rt_sleeps, 2 * attempt)
                     /\ attempt' = attempt + 1
                     /\ UNCHANGED rt_pc
                ELSE rt_pc' = "raised" /\ UNCHANGED <<attempt, rt_sleeps>>
    /\ UNCHANGED <<rt_adapter, max_retries>>
    /\ UNCHANGED <<metricVars, computeVars, filterVars, loadVars, genVars, predictVars, selectVars, providerVars, startupVars, benchVars, datasetVars, topkVars, normalizeVars, oracleVars>>

\* one iteration of the loop of call_llm: only 429 is retried, after a sleep;
\* raise_for_status raises for every other error status; after the last
\* iteration RuntimeError("Exceeded retry budget for LLM call.")
CallLlm ==
    /\ rt_adapter = CallLlmLoop
    /\ rt_pc = "attempt"
    /\ \E status \in Statuses :
          /\ rt_requests' = Append(rt_requests, [via |-> "requests", status |-> status])
          /\ IF status = 429
             THEN /\ rt_sleeps' = Append(rt_sleeps, attempt * 2)
                  /\ IF attempt = max_retries
                     THEN rt_pc' = "raised" /\ UNCHANGED attempt
                     ELSE attempt' = attempt + 1 /\ UNCHANGED rt_pc
             ELSE /\ rt_pc' = IF status = 200 THEN "returned" ELSE "raised"
                  /\ UNCHANGED <<attempt, rt_sleeps>>
    /\ UNCHANGED <<rt_adapter, max_retries>>
    /\ UNCHANGED <<metricVars, computeVars, filterVars, loadVars, genVars, predictVars, selectVars, providerVars, startupVars, benchVars, datasetVars, topkVars, normalizeVars, oracleVars>>

RetryNext == JetstreamPost \/ PostWithRetries \/ CallLlm

SpecRetry == RetryInit /\ [][RetryNext]_vars

\* HTTP 429 or any 5xx status
Retryable(status) == status = 429 \/ (status >= 500 /\ status <= 599)

\* C17: an adapter whose endpoint answers 429 or 5xx requests again, after a
\* sleep, until it succeeds or max_retries requests were made: it makes no
\* more than max_retries requests, and it raises on such an answer only when
\* the budget of max_retries is used up.
C17_RetryOn429And5xx ==
    rt_adapter \in {PostWithRetriesLoop, CallLlmLoop} =>
        /\ Len(rt_requests) <= max_retries
        /\ rt_pc = "attempt" => Len(rt_sleeps) = Len(rt_requests)
        /\ (rt_pc = "raised" /\ Retryable(rt_requests[Len(rt_requests)].status)) =>
              Len(rt_requests) = max_retries

\* C18: the delay before attempt n+2 is twice the delay before attempt n+1,
\* in every retry loop and for every retry budget.
C18_BackoffDoubles ==
    \A n \in 1..Len(rt_sleeps) :
        n + 2 <= max_retries /\ n + 1 <= Len(rt_sleeps) => rt_sleeps[n + 1] = 2 * rt_sleeps[n]

(***************************************************************************)
(* The provider adapters of scripts/llm/llm_providers.py, from the decoded *)
(* response raw on.  A JSON value is [kind, text, items, fields]: kind is  *)
(* "null", "str", "int", "list" or "dict"; text is the str, items the list *)
(* elements, fields the dict as a sequence of [key, value].  pv_result is  *)
(* [state, content]: "pending", "returned" with LLMResponse.content, or    *)
(* "raised".                                                               *)
(***************************************************************************)
JNull == [kind |-> "null", text |-> "", items |-> <<>>, fields |-> <<>>]
JStr(t) == [kind |-> "str", text |-> t, items |-> <<>>, fields |-> <<>>]
JNum == [kind |-> "int", text |-> "", items |-> <<>>, fields |-> <<>>]
JList(items) == [kind |-> "list", text |-> "", items |-> items, fields |-> <<>>]
JDict(fields) == [kind |-> "dict", text |-> "", items |-> <<>>, fields |-> fields]
Field(key, value) == [key |-> key, value |-> value]

\* bool(v) of Python (the int here is not 0)
Truthy(v) ==
    CASE v.kind = "null" -> FALSE
      [] v.kind = "str" -> v.text # ""
      [] v.kind = "list" -> v.items # <<>>
      [] v.kind = "dict" -> v.fields # <<>>
      [] OTHER -> TRUE

\* d.get(key) of a dict d
get(d, key) ==
    IF \E i \in 1..Len(d.fields) : d.fields[i].key = key
    THEN d.fields[CHOOSE i \in 1..Len(d.fields) : d.fields[i].key = key].value
    ELSE JNull

Raised == [state |-> "raised", content |-> ""]
Returned(text) == [state |-> "returned", content |-> text]

\* the content is returned whatever its type
call_openai_compatible_unchecked(raw) ==
    IF raw.kind # "dict" THEN Raised
    ELSE LET choices == IF Truthy(get(raw, "choices")) THEN get(raw, "choices") ELSE JList(<<>>)
         IN IF ~Truthy(choices) \/ choices.kind # "list" THEN Raised
            ELSE IF choices.items[1].kind # "dict" THEN Raised
            ELSE LET m == get(choices.items[1], "message")
                     message == IF Truthy(m) THEN m ELSE JDict(<<>>)
                 IN IF message.kind # "dict" THEN Raised
                    ELSE Returned(get(message, "content").text)

\* call_openai_compatible after _post_with_retries; a .get on a value that is
\* no dict and choices[0] on a value that is no list raise
call_openai_compatible(raw) ==
    IF raw.kind # "dict" THEN Raised
    ELSE LET choices == IF Truthy(get(raw, "choices")) THEN get(raw, "choices") ELSE JList(<<>>)
         IN IF ~Truthy(choices) \/ choices.kind # "list" THEN Raised
            ELSE IF choices.items[1].kind # "dict" THEN Raised
            ELSE LET m == get(choices.items[1], "message")
                     message == IF Truthy(m) THEN m ELSE JDict(<<>>)
                 IN IF message.kind # "dict" THEN Raised
                    ELSE IF get(message, "content").kind # "str" THEN Raised
                    ELSE Returned(get(message, "content").text)

\* the loop "for block in content_blocks" of call_anthropic
RECURSIVE first_text_block(_)
first_text_block(blocks) ==
    IF blocks = <<>> THEN Raised
    ELSE LET block == Head(blocks)
         IN IF /\ block.kind = "dict"
               /\ get(block, "type") = JStr("text")
               /\ get(block, "text").kind = "str"
            THEN Returned(get(block, "text").text)
            ELSE first_text_block(Tail(blocks))

call_anthropic(raw) ==
    IF raw.kind # "dict" THEN Raised
    ELSE LET content_blocks == IF Truthy(get(raw, "content")) THEN get(raw, "content")
                               ELSE JList(<<>>)
         IN IF content_blocks.kind # "list" \/ content_blocks.items = <<>> THEN Raised
            ELSE first_text_block(content_blocks.items)

call_gemini(raw) ==
    IF raw.kind # "dict" THEN Raised
    ELSE LET candidates == IF Truthy(get(raw, "candidates")) THEN get(raw, "candidates")
                           ELSE JList(<<>>)
         IN IF candidates.kind # "list" \/ candidates.items = <<>> THEN Raised
            ELSE LET first == candidates.items[1]
                     content == IF first.kind = "dict" THEN get(first, "content") ELSE JNull
                     parts == IF content.kind = "dict" THEN get(content, "parts") ELSE JNull
                 IN IF /\ parts.kind = "list"
                       /\ parts.items # <<>>
                       /\ parts.items[1].kind = "dict"
                       /\ get(parts.items[1], "text").kind = "str"
                    THEN Returned(get(parts.items[1], "text").text)
                    ELSE Raised

call_ollama(raw) ==
    LET message == IF raw.kind = "dict" THEN get(raw, "message") ELSE JNull
        content == IF message.kind = "dict" THEN get(message, "content") ELSE JNull
    IN IF content.kind # "str" THEN Raised ELSE Returned(content.text)

\* ---- specification SpecProviders ----
TextValues == {JStr("hi"), JStr(""), JNull, JNum, JList(<<JStr("hi")>>)}
Messages ==
    {JDict(<<Field("content", t)>>) : t \in TextValues}
    \cup {JDict(<<Field("role", JStr("assistant"))>>), JNull, JStr("m")}
Choices == {JDict(<<Field("message", m)>>) : m \in Messages} \cup {JStr("c")}
GoodChoice == JDict(<<Field("message", JDict(<<Field("content", JStr("second"))>>))>>)
Blocks ==
    {JDict(<<Field("type", JStr("text")), Field("text", t)>>) : t \in {JStr("hi"), JNull}}
    \cup {JDict(<<Field("type", JStr("tool_use")), Field("text", JStr("no"))>>), JStr("b")}
Parts == {JDict(<<Field("text", t)>>) : t \in {JStr("hi"), JNum}}
         \cup {JDict(<<Field("inlineData", JStr("d"))>>), JStr("p")}
Candidates ==
    {JDict(<<Field("content", JDict(<<Field("parts", JList(ps))>>))>>) :
        ps \in SeqsUpTo(Parts, 2)}
    \cup {JDict(<<Field("content", JStr("c"))>>), JDict(<<Field("finishReason", JStr("x"))>>),
          JNull}
Responses ==
    {JNull, JList(<<>>), JDict(<<>>), JDict(<<Field("error", JStr("e"))>>)}
    \cup {JDict(<<Field("choices", c)>>) : c \in {JNull, JList(<<>>), JStr("x"), JNum, GoodChoice}}
    \cup {JDict(<<Field("choices", JList(<<c>>))>>) : c \in Choices}
    \cup {JDict(<<Field("choices", JList(<<c, GoodChoice>>))>>) : c \in Choices}
    \cup {JDict(<<Field("content", JList(bs))>>) : bs \in SeqsUpTo(Blocks, 2)}
    \cup {JDict(<<Field("content", c)>>) : c \in {JStr("hi"), JNull}}
    \cup {JDict(<<Field("candidates", JList(<<c>>))>>) : c \in Candidates}
    \cup {JDict(<<Field("candidates", c)>>) : c \in {JList(<<>>), JStr("x")}}
    \cup {JDict(<<Field("message", m)>>) : m \in Messages}
Providers == {"openai_compatible", "anthropic", "gemini", "ollama"}
Pending == [state |-> "pending", content |-> ""]

ProvidersInit ==
    /\ or_args = Idle /\ or_gold = Idle /\ or_pos = Idle /\ or_processed = Idle
    /\ or_file = Idle /\ or_gold_items = Idle /\ or_pred_items = Idle /\ or_results = Idle
    /\ or_pc = Idle
    /\ nz_fn = Idle /\ nz_id = Idle /\ nz_once = Idle /\ nz_twice = Idle
    /\ nz_pc = Idle
    /\ tk_run = Idle /\ tk_returned = Idle /\ top_k = Idle /\ tk_line = Idle
    /\ tk_pc = Idle
    /\ ds_requested = Idle /\ ds_tutorial = Idle /\ ds_tool = Idle /\ ds_item = Idle
    /\ ds_pc = Idle
    /\ bm_args = Idle /\ bm_tutorials = Idle /\ bm_before = Idle /\ bm_file = Idle
    /\ existing_items = Idle /\ completed_tutorials = Idle /\ all_items = Idle /\ bm_pos = Idle
    /\ bm_calls = Idle /\ bm_pc = Idle
    /\ st_script = Idle /\ st_config = Idle /\ st_work = Idle /\ st_pc = Idle
    /\ pv_provider \in Providers
    /\ pv_raw \in Responses
    /\ pv_result = Pending
    /\ rt_adapter = Idle /\ max_retries = Idle /\ attempt = Idle /\ rt_requests = Idle
    /\ rt_sleeps = Idle /\ rt_pc = Idle
    /\ sc_tools = Idle /\ sc_query = Idle /\ sc_k = Idle /\ sc_out = Idle
    /\ pr_script = Idle /\ pr_args = Idle /\ pr_entries = Idle /\ pr_pos = Idle
    /\ out_before = Idle /\ out_file = Idle /\ out_buffer = Idle /\ existing_ids = Idle
    /\ processed = Idle /\ model_calls = Idle /\ pr_pc = Idle
    /\ preds = Idle /\ gold = Idle /\ k = Idle /\ hit = Idle /\ mrr = Idle /\ ndcg = Idle
    /\ gold_items = Idle /\ pred_items = Idle /\ ks = Idle /\ totals = Idle
    /\ count = Idle /\ cm_pos = Idle /\ cm_pc = Idle /\ results = Idle
    /\ args = Idle /\ fg_items = Idle /\ filtered = Idle /\ fg_pc = Idle
    /\ markdown = Idle /\ metadata = Idle /\ workflow_dir = Idle /\ tutorial = Idle /\ lt_pc = Idle
    /\ gq_tools = Idle /\ gq_idx = Idle /\ query_block = Idle
    /\ benchmark_items = Idle /\ gq_pc = Idle /\ gq_calls = Idle /\ raw_written = Idle

CallOpenaiCompatible ==
    /\ pv_provider = "openai_compatible" /\ pv_result = Pending
    /\ pv_result' = call_openai_compatible(pv_raw)
    /\ UNCHANGED <<pv_provider, pv_raw>>
    /\ UNCHANGED <<metricVars, computeVars, filterVars, loadVars, genVars, predictVars, selectVars, retryVars, startupVars, benchVars, datasetVars, topkVars, normalizeVars, oracleVars>>

CallAnthropic ==
    /\ pv_provider = "anthropic" /\ pv_result = Pending
    /\ pv_result' = call_anthropic(pv_raw)
    /\ UNCHANGED <<pv_provider, pv_raw>>
    /\ UNCHANGED <<metricVars, computeVars, filterVars, loadVars, genVars, predictVars, selectVars, retryVars, startupVars, benchVars, datasetVars, topkVars, normalizeVars, oracleVars>>

CallGemini ==
    /\ pv_provider = "gemini" /\ pv_result = Pending
    /\ pv_result' = call_gemini(pv_raw)
    /\ UNCHANGED <<pv_provider, pv_raw>>
    /\ UNCHANGED <<metricVars, computeVars, filterVars, loadVars, genVars, predictVars, selectVars, retryVars, startupVars, benchVars, datasetVars, topkVars, normalizeVars, oracleVars>>

CallOllama ==
    /\ pv_provider = "ollama" /\ pv_result = Pending
    /\ pv_result' = call_ollama(pv_raw)
    /\ UNCHANGED <<pv_provider, pv_raw>>
    /\ UNCHANGED <<metricVars, computeVars, filterVars, loadVars, genVars, predictVars, selectVars, retryVars, startupVars, benchVars, datasetVars, topkVars, normalizeVars, oracleVars>>

ProvidersNext == CallOpenaiCompatible \/ CallAnthropic \/ CallGemini \/ CallOllama

SpecProviders == ProvidersInit /\ [][ProvidersNext]_vars

\* the value under a key of a dict, or at a 1-based index of a list; JNull
\* when there is none
Under(v, key) == IF v.kind = "dict" THEN get(v, key) ELSE JNull
Nth(v, n) == IF v.kind = "list" /\ n <= Len(v.items) THEN v.items[n] ELSE JNull

\* the text blocks of an Anthropic response, in order
TextBlocks(raw) ==
    SelectSeq(Under(raw, "content").items,
              LAMBDA b : Under(b, "type") = JStr("text") /\ Under(b, "text").kind = "str")

\* the text field of the first completion of the response, JNull when the
\* response has no completion or the completion has no such field
ExpectedText(provider, raw) ==
    CASE provider = "openai_compatible" ->
            Under(Under(Nth(Under(raw, "choices"), 1), "message"), "content")
      [] provider = "gemini" ->
            Under(Nth(Under(Under(Nth(Under(raw, "candidates"), 1), "content"), "parts"), 1),
                  "text")
      [] provider = "ollama" -> Under(Under(raw, "message"), "content")
      [] provider = "anthropic" ->
            IF TextBlocks(raw) = <<>> THEN JNull ELSE Under(TextBlocks(raw)[1], "text")

\* C19: each adapter returns the first textual completion of a well-formed
\* response, and raises, returning nothing, when the response has no choices,
\* candidates or content blocks or when the text field is absent or no string.
C19_FirstTextOrRaise ==
    pv_result # Pending =>
        IF ExpectedText(pv_provider, pv_raw).kind = "str"
        THEN pv_result = Returned(ExpectedText(pv_provider, pv_raw).text)
        ELSE pv_result = Raised

\* an Anthropic response whose first block is no text block and whose second
\* one is
C19_Witness ==
    /\ pv_provider = "anthropic"
    /\ Len(Under(pv_raw, "content").items) = 2
    /\ Under(Nth(Under(pv_raw, "content"), 1), "type") = JStr("tool_use")
    /\ pv_result = Returned("hi")

(***************************************************************************)
(* Start-up of the three command-line scripts: what each of them does      *)
(* before and after it looks for its required configuration.               *)
(*   generate_benchmark.main, generate_llm_predictions.main,               *)
(*   run_v1_agent_eval.generate_predictions / _ensure_llm_key              *)
(***************************************************************************)
GenerateBenchmark == "generate_benchmark"
\* Python's `a or b` on two optional strings ("" stands for None or empty)
StrOr(a, b) == IF a # "" THEN a ELSE b
\* _ensure_llm_key: the key it returns, "" when it calls sys.exit(1)
ensure_llm_key(provider, api_key_arg, env_key) ==
    IF provider = "ollama" THEN "" ELSE StrOr(api_key_arg, env_key)
\* JetstreamClient.from_env raises ValueError when JETSTREAM_API_BASE is empty
from_env_raises(api_base) == api_base = ""

StartupScripts == {GenerateBenchmark, LlmPredictions, RunV1}
StartupProviders == {"openai", "anthropic", "gemini", "ollama"}
StartupConfigs ==
    [agent : {"llm", "oracle"}, provider : StartupProviders,
     api_key : {"", "k"}, env_key : {"", "e"}, api_base : {"", "u"},
     download_datasets : BOOLEAN]

StartupInit ==
    /\ or_args = Idle /\ or_gold = Idle /\ or_pos = Idle /\ or_processed = Idle
    /\ or_file = Idle /\ or_gold_items = Idle /\ or_pred_items = Idle /\ or_results = Idle
    /\ or_pc = Idle
    /\ nz_fn = Idle /\ nz_id = Idle /\ nz_once = Idle /\ nz_twice = Idle
    /\ nz_pc = Idle
    /\ tk_run = Idle /\ tk_returned = Idle /\ top_k = Idle /\ tk_line = Idle
    /\ tk_pc = Idle
    /\ ds_requested = Idle /\ ds_tutorial = Idle /\ ds_tool = Idle /\ ds_item = Idle
    /\ ds_pc = Idle
    /\ bm_args = Idle /\ bm_tutorials = Idle /\ bm_before = Idle /\ bm_file = Idle
    /\ existing_items = Idle /\ completed_tutorials = Idle /\ all_items = Idle /\ bm_pos = Idle
    /\ bm_calls = Idle /\ bm_pc = Idle
    /\ st_script \in StartupScripts
    /\ st_config \in StartupConfigs
    /\ st_work = <<>>
    /\ st_pc = "start"
    /\ rt_adapter = Idle /\ max_retries = Idle /\ attempt = Idle /\ rt_requests = Idle
    /\ rt_sleeps = Idle /\ rt_pc = Idle
    /\ pv_provider = Idle /\ pv_raw = Idle /\ pv_result = Idle
    /\ sc_tools = Idle /\ sc_query = Idle /\ sc_k = Idle /\ sc_out = Idle
    /\ pr_script = Idle /\ pr_args = Idle /\ pr_entries = Idle /\ pr_pos = Idle
    /\ out_before = Idle /\ out_file = Idle /\ out_buffer = Idle /\ existing_ids = Idle
    /\ processed = Idle /\ model_calls = Idle /\ pr_pc = Idle
    /\ preds = Idle /\ gold = Idle /\ k = Idle /\ hit = Idle /\ mrr = Idle /\ ndcg = Idle
    /\ gold_items = Idle /\ pred_items = Idle /\ ks = Idle /\ totals = Idle
    /\ count = Idle /\ cm_pos = Idle /\ cm_pc = Idle /\ results = Idle
    /\ args = Idle /\ fg_items = Idle /\ filtered = Idle /\ fg_pc = Idle
    /\ markdown = Idle /\ metadata = Idle /\ workflow_dir = Idle /\ tutorial = Idle /\ lt_pc = Idle
    /\ gq_tools = Idle /\ gq_idx = Idle /\ query_block = Idle
    /\ benchmark_items = Idle /\ gq_pc = Idle /\ gq_calls = Idle /\ raw_written = Idle

\* generate_benchmark.main up to the tutorial selection: reads only
BenchLoadTutorials ==
    /\ st_script = GenerateBenchmark /\ st_pc = "start"
    /\ st_pc' = "datasets"
    /\ UNCHANGED <<st_script, st_config, st_work>>
    /\ UNCHANGED <<metricVars, computeVars, filterVars, loadVars, genVars, predictVars, selectVars, retryVars, providerVars, benchVars, datasetVars, topkVars, normalizeVars, oracleVars>>

\* generate_benchmark.main: download_datasets_for_tutorials under
\* --download-datasets
BenchDownloadDatasets ==
    /\ st_script = GenerateBenchmark /\ st_pc = "datasets"
    /\ st_work' = IF st_config.download_datasets
                  THEN Append(st_work, "dataset_download") ELSE st_work
    /\ st_pc' = "client"
    /\ UNCHANGED <<st_script, st_config>>
    /\ UNCHANGED <<metricVars, computeVars, filterVars, loadVars, genVars, predictVars, selectVars, retryVars, providerVars, benchVars, datasetVars, topkVars, normalizeVars, oracleVars>>

\* generate_benchmark.main: client = JetstreamClient.from_env(); the
\* ValueError is not caught, the interpreter ends with status 1
BenchClientFromEnv ==
    /\ st_script = GenerateBenchmark /\ st_pc = "client"
    /\ st_pc' = IF from_env_raises(st_config.api_base) THEN "exited" ELSE "generate"
    /\ UNCHANGED <<st_script, st_config, st_work>>
    /\ UNCHANGED <<metricVars, computeVars, filterVars, loadVars, genVars, predictVars, selectVars, retryVars, providerVars, benchVars, datasetVars, topkVars, normalizeVars, oracleVars>>

\* generate_benchmark.main: the generation loop, then write_jsonl
BenchGenerateAndWrite ==
    /\ st_script = GenerateBenchmark /\ st_pc = "generate"
    /\ st_work' = st_work \o <<"model_call", "file_write">>
    /\ st_pc' = "done"
    /\ UNCHANGED <<st_script, st_config>>
    /\ UNCHANGED <<metricVars, computeVars, filterVars, loadVars, genVars, predictVars, selectVars, retryVars, providerVars, benchVars, datasetVars, topkVars, normalizeVars, oracleVars>>

\* generate_llm_predictions.main: the key is looked up first
LlmPredictionsKey ==
    /\ st_script = LlmPredictions /\ st_pc = "start"
    /\ st_pc' = IF StrOr(st_config.api_key, st_config.env_key) = ""
                THEN "exited" ELSE "predict"
    /\ UNCHANGED <<st_script, st_config, st_work>>
    /\ UNCHANGED <<metricVars, computeVars, filterVars, loadVars, genVars, predictVars, selectVars, retryVars, providerVars, benchVars, datasetVars, topkVars, normalizeVars, oracleVars>>

\* run_v1_agent_eval.generate_predictions up to the key: gold items, tool
\* catalog and existing ids are read
RunV1Prepare ==
    /\ st_script = RunV1 /\ st_pc = "start"
    /\ st_pc' = "key"
    /\ UNCHANGED <<st_script, st_config, st_work>>
    /\ UNCHANGED <<metricVars, computeVars, filterVars, loadVars, genVars, predictVars, selectVars, retryVars, providerVars, benchVars, datasetVars, topkVars, normalizeVars, oracleVars>>

\* run_v1_agent_eval.generate_predictions: if args.agent == "llm":
\* api_key = _ensure_llm_key(args)
RunV1EnsureKey ==
    /\ st_script = RunV1 /\ st_pc = "key"
    /\ st_pc' = IF /\ st_config.agent = "llm"
                   /\ ensure_llm_key(st_config.provider, st_config.api_key,
                                     st_config.env_key) = ""
                THEN "exited" ELSE "predict"
    /\ UNCHANGED <<st_script, st_config, st_work>>
    /\ UNCHANGED <<metricVars, computeVars, filterVars, loadVars, genVars, predictVars, selectVars, retryVars, providerVars, benchVars, datasetVars, topkVars, normalizeVars, oracleVars>>

\* the prediction loop of either script: the model is called for the llm
\* agent, a line is written
StartupPredict ==
    /\ st_script \in {LlmPredictions, RunV1} /\ st_pc = "predict"
    /\ st_work' = st_work \o
           (IF st_script = LlmPredictions \/ st_config.agent = "llm"
            THEN <<"model_call", "file_write">> ELSE <<"file_write">>)
    /\ st_pc' = "done"
    /\ UNCHANGED <<st_script, st_config>>
    /\ UNCHANGED <<metricVars, computeVars, filterVars, loadVars, genVars, predictVars, selectVars, retryVars, providerVars, benchVars, datasetVars, topkVars, normalizeVars, oracleVars>>

StartupNext ==
    \/ BenchLoadTutorials
    \/ BenchDownloadDatasets
    \/ BenchClientFromEnv
    \/ BenchGenerateAndWrite
    \/ LlmPredictionsKey
    \/ RunV1Prepare
    \/ RunV1EnsureKey
    \/ StartupPredict

SpecStartup == StartupInit /\ [][StartupNext]_vars

\* the configuration the script requires is absent
ConfigMissing ==
    \/ st_script = GenerateBenchmark /\ st_config.api_base = ""
    \/ st_script = LlmPredictions /\ st_config.api_key = "" /\ st_config.env_key = ""
    \/ st_script = RunV1 /\ st_config.agent = "llm" /\ st_config.provider # "ollama"
       /\ st_config.api_key = "" /\ st_config.env_key = ""

\* C21: with the required configuration missing the process ends before any
\* work: it never gets past start-up, and when it has exited no dataset was
\* downloaded, no model was called and no output file was written.
C21_ExitBeforeWork ==
    ConfigMissing => /\ st_pc \notin {"generate", "predict", "done"}
                     /\ st_work = <<>>

\* C29: a run_v1 run with agent llm and provider ollama needs no API key:
\* _ensure_llm_key returns and the run goes on to the prediction loop.
C29_OllamaNeedsNoKey ==
    (st_script = RunV1 /\ st_config.agent = "llm" /\ st_config.provider = "ollama")
        => st_pc # "exited"

(***************************************************************************)
(* generate_benchmark.main from the resume block to write_jsonl, with the  *)
(* ids that generate_queries_for_tutorial gives to the items it returns.   *)
(* A tutorial id is a sequence of path segments, a segment and an id       *)
(* suffix are sequences of characters.                                     *)
(***************************************************************************)
\* str.rstrip("/") on a path: trailing empty segments go
rstrip_slash(path) ==
    LET n == CHOOSE m \in 0..Len(path) :
                 /\ \A i \in (m + 1)..Len(path) : path[i] = <<>>
                 /\ (m > 0 => path[m] # <<>>)
    IN  SubSeq(path, 1, n)
\* TutorialInfo.short_name: tutorial_id.rstrip("/").split("/")[-1]
short_name(tutorial_id) ==
    LET p == rstrip_slash(tutorial_id)
    IN  IF p = <<>> THEN <<>> ELSE p[Len(p)]
Digit(n) == <<"0", "1", "2", "3", "4", "5", "6", "7", "8", "9">>[n + 1]
\* f"q{idx:02d}"
default_suffix(idx) == <<"q", Digit((idx \div 10) % 10), Digit(idx % 10)>>
\* suffix = query_block.get("id_suffix") or f"q{idx:02d}"
id_suffix_of(block, idx) ==
    IF block.id_suffix # <<>> THEN block.id_suffix ELSE default_suffix(idx)
\* f"{tutorial.short_name}-{suffix}"
item_id(tutorial_id, suffix) == short_name(tutorial_id) \o <<"-">> \o suffix
\* the items generate_queries_for_tutorial builds from payload[1..n]
RECURSIVE items_of(_, _, _)
items_of(tutorial_id, payload, n) ==
    IF n = 0 THEN <<>>
    ELSE LET rest == items_of(tutorial_id, payload, n - 1)
             block == payload[n]
         IN  IF block.blank THEN rest
             ELSE Append(rest, [id |-> item_id(tutorial_id, id_suffix_of(block, n)),
                                tutorial_id |-> tutorial_id,
                                malformed |-> FALSE])
\* [x for x in s if keep(x)] for the two uses in the resume block
RECURSIVE well_formed(_)
well_formed(records) ==
    IF records = <<>> THEN <<>>
    ELSE IF records[1].malformed THEN well_formed(Tail(records))
         ELSE <<records[1]>> \o well_formed(Tail(records))
RECURSIVE not_refreshed(_, _)
not_refreshed(items, refresh_filters) ==
    IF items = <<>> THEN <<>>
    ELSE IF items[1].tutorial_id \in refresh_filters
         THEN not_refreshed(Tail(items), refresh_filters)
         ELSE <<items[1]>> \o not_refreshed(Tail(items), refresh_filters)

MaxBenchTutorials == 2
MaxExistingItems == 2
TutA == <<<<"t">>, <<"a">>>>
TutA2 == <<<<"u">>, <<"a">>>>
TutB == <<<<"t">>, <<"b">>, <<>>>>
BenchTutorials == {TutA, TutA2, TutB}
Omitted == [blank |-> FALSE, id_suffix |-> <<>>]
BlankQuery == [blank |-> TRUE, id_suffix |-> <<>>]
Suffixed == [blank |-> FALSE, id_suffix |-> <<"q", "0", "2">>]
BenchPayloads ==
    {<<>>, <<Omitted>>, <<Omitted, Omitted>>, <<BlankQuery, Omitted>>,
     <<Suffixed, Omitted>>}
ExistingRecords ==
    {[id |-> item_id(TutA, default_suffix(1)), tutorial_id |-> TutA, malformed |-> FALSE],
     [id |-> item_id(TutB, default_suffix(1)), tutorial_id |-> TutB, malformed |-> FALSE],
     [id |-> item_id(TutB, default_suffix(2)), tutorial_id |-> TutB, malformed |-> TRUE]}
BenchArgs ==
    [overwrite : BOOLEAN, resume : BOOLEAN, refresh_filters : {{}, {TutA}}]

BenchInit ==
    /\ or_args = Idle /\ or_gold = Idle /\ or_pos = Idle /\ or_processed = Idle
    /\ or_file = Idle /\ or_gold_items = Idle /\ or_pred_items = Idle /\ or_results = Idle
    /\ or_pc = Idle
    /\ nz_fn = Idle /\ nz_id = Idle /\ nz_once = Idle /\ nz_twice = Idle
    /\ nz_pc = Idle
    /\ tk_run = Idle /\ tk_returned = Idle /\ top_k = Idle /\ tk_line = Idle
    /\ tk_pc = Idle
    /\ ds_requested = Idle /\ ds_tutorial = Idle /\ ds_tool = Idle /\ ds_item = Idle
    /\ ds_pc = Idle
    /\ bm_args \in BenchArgs
    /\ bm_tutorials \in UniqueSeqsUpTo(BenchTutorials, MaxBenchTutorials) \ {<<>>}
    /\ bm_before \in [exists : {TRUE}, items : UniqueSeqsUpTo(ExistingRecords, MaxExistingItems)]
                       \cup {[exists |-> FALSE, items |-> <<>>]}
    /\ bm_file = bm_before
    /\ existing_items = <<>>
    /\ completed_tutorials = {}
    /\ all_items = <<>>
    /\ bm_pos = 1
    /\ bm_calls = <<>>
    /\ bm_pc = "start"
    /\ st_script = Idle /\ st_config = Idle /\ st_work = Idle /\ st_pc = Idle
    /\ rt_adapter = Idle /\ max_retries = Idle /\ attempt = Idle /\ rt_requests = Idle
    /\ rt_sleeps = Idle /\ rt_pc = Idle
    /\ pv_provider = Idle /\ pv_raw = Idle /\ pv_result = Idle
    /\ sc_tools = Idle /\ sc_query = Idle /\ sc_k = Idle /\ sc_out = Idle
    /\ pr_script = Idle /\ pr_args = Idle /\ pr_entries = Idle /\ pr_pos = Idle
    /\ out_before = Idle /\ out_file = Idle /\ out_buffer = Idle /\ existing_ids = Idle
    /\ processed = Idle /\ model_calls = Idle /\ pr_pc = Idle
    /\ preds = Idle /\ gold = Idle /\ k = Idle /\ hit = Idle /\ mrr = Idle /\ ndcg = Idle
    /\ gold_items = Idle /\ pred_items = Idle /\ ks = Idle /\ totals = Idle
    /\ count = Idle /\ cm_pos = Idle /\ cm_pc = Idle /\ results = Idle
    /\ args = Idle /\ fg_items = Idle /\ filtered = Idle /\ fg_pc = Idle
    /\ markdown = Idle /\ metadata = Idle /\ workflow_dir = Idle /\ tutorial = Idle /\ lt_pc = Idle
    /\ gq_tools = Idle /\ gq_idx = Idle /\ query_block = Idle
    /\ benchmark_items = Idle /\ gq_pc = Idle /\ gq_calls = Idle /\ raw_written = Idle

\* main: the output files exist and neither --overwrite nor --resume is given
BenchOutputExists ==
    /\ bm_pc = "start"
    /\ ~bm_args.overwrite /\ ~bm_args.resume /\ bm_file.exists
    /\ bm_pc' = "refused"
    /\ UNCHANGED <<bm_args, bm_tutorials, bm_before, bm_file, existing_items,
                   completed_tutorials, all_items, bm_pos, bm_calls>>
    /\ UNCHANGED <<metricVars, computeVars, filterVars, loadVars, genVars, predictVars, selectVars, retryVars, providerVars, startupVars, datasetVars, topkVars, normalizeVars, oracleVars>>

\* main: the resume block and all_items = existing_items.copy()
BenchResume ==
    /\ bm_pc = "start"
    /\ ~(~bm_args.overwrite /\ ~bm_args.resume /\ bm_file.exists)
    /\ LET read == bm_args.resume /\ bm_file.exists
           loaded == IF read THEN well_formed(bm_file.items) ELSE <<>>
           kept == IF read THEN not_refreshed(loaded, bm_args.refresh_filters)
                   ELSE <<>>
       IN  /\ existing_items' = kept
           /\ completed_tutorials' =
                  IF read
                  THEN {loaded[i].tutorial_id : i \in 1..Len(loaded)}
                           \ bm_args.refresh_filters
                  ELSE {}
           /\ all_items' = kept
    /\ bm_pc' = "loop"
    /\ UNCHANGED <<bm_args, bm_tutorials, bm_before, bm_file, bm_pos, bm_calls>>
    /\ UNCHANGED <<metricVars, computeVars, filterVars, loadVars, genVars, predictVars, selectVars, retryVars, providerVars, startupVars, datasetVars, topkVars, normalizeVars, oracleVars>>

\* loop: if args.resume and tutorial.tutorial_id in completed_tutorials: continue
BenchSkipCompleted ==
    /\ bm_pc = "loop" /\ bm_pos <= Len(bm_tutorials)
    /\ bm_args.resume /\ bm_tutorials[bm_pos] \in completed_tutorials
    /\ bm_pos' = bm_pos + 1
    /\ UNCHANGED <<bm_args, bm_tutorials, bm_before, bm_file, existing_items,
                   completed_tutorials, all_items, bm_calls, bm_pc>>
    /\ UNCHANGED <<metricVars, computeVars, filterVars, loadVars, genVars, predictVars, selectVars, retryVars, providerVars, startupVars, datasetVars, topkVars, normalizeVars, oracleVars>>

\* loop: generate_queries_for_tutorial returns; all_items.extend(tutorial_items)
BenchGenerate ==
    /\ bm_pc = "loop" /\ bm_pos <= Len(bm_tutorials)
    /\ ~(bm_args.resume /\ bm_tutorials[bm_pos] \in completed_tutorials)
    /\ \E payload \in BenchPayloads :
           all_items' = all_items \o items_of(bm_tutorials[bm_pos], payload, Len(payload))
    /\ bm_calls' = Append(bm_calls, bm_tutorials[bm_pos])
    /\ bm_pos' = bm_pos + 1
    /\ UNCHANGED <<bm_args, bm_tutorials, bm_before, bm_file, existing_items,
                   completed_tutorials, bm_pc>>
    /\ UNCHANGED <<metricVars, computeVars, filterVars, loadVars, genVars, predictVars, selectVars, retryVars, providerVars, startupVars, datasetVars, topkVars, normalizeVars, oracleVars>>

\* loop: generate_queries_for_tutorial raises; except Exception: continue
BenchGenerateFails ==
    /\ bm_pc = "loop" /\ bm_pos <= Len(bm_tutorials)
    /\ ~(bm_args.resume /\ bm_tutorials[bm_pos] \in completed_tutorials)
    /\ bm_calls' = Append(bm_calls, bm_tutorials[bm_pos])
    /\ bm_pos' = bm_pos + 1
    /\ UNCHANGED <<bm_args, bm_tutorials, bm_before, bm_file, existing_items,
                   completed_tutorials, all_items, bm_pc>>
    /\ UNCHANGED <<metricVars, computeVars, filterVars, loadVars, genVars, predictVars, selectVars, retryVars, providerVars, startupVars, datasetVars, topkVars, normalizeVars, oracleVars>>

\* after the loop: if not all_items: sys.exit(1)
BenchNoItems ==
    /\ bm_pc = "loop" /\ bm_pos > Len(bm_tutorials)
    /\ all_items = <<>>
    /\ bm_pc' = "exited"
    /\ UNCHANGED <<bm_args, bm_tutorials, bm_before, bm_file, existing_items,
                   completed_tutorials, all_items, bm_pos, bm_calls>>
    /\ UNCHANGED <<metricVars, computeVars, filterVars, loadVars, genVars, predictVars, selectVars, retryVars, providerVars, startupVars, datasetVars, topkVars, normalizeVars, oracleVars>>

\* after the loop: write_jsonl(all_items, items_path)
BenchWriteItems ==
    /\ bm_pc = "loop" /\ bm_pos > Len(bm_tutorials)
    /\ all_items # <<>>
    /\ bm_file' = [exists |-> TRUE, items |-> all_items]
    /\ bm_pc' = "done"
    /\ UNCHANGED <<bm_args, bm_tutorials, bm_before, existing_items,
                   completed_tutorials, all_items, bm_pos, bm_calls>>
    /\ UNCHANGED <<metricVars, computeVars, filterVars, loadVars, genVars, predictVars, selectVars, retryVars, providerVars, startupVars, datasetVars, topkVars, normalizeVars, oracleVars>>

BenchNext ==
    \/ BenchOutputExists
    \/ BenchResume
    \/ BenchSkipCompleted
    \/ BenchGenerate
    \/ BenchGenerateFails
    \/ BenchNoItems
    \/ BenchWriteItems

SpecBench == BenchInit /\ [][BenchNext]_vars

\* C22: the ids of the items of a written benchmark file are pairwise distinct.
C22_UniqueItemIds ==
    bm_pc = "done" =>
        \A i, j \in 1..Len(bm_file.items) :
            bm_file.items[i].id = bm_file.items[j].id => i = j

\* the well-formed items the file held before the run
OldItems == well_formed(bm_before.items)
\* the items generated in this run
NewItems == SubSeq(all_items, Len(existing_items) + 1, Len(all_items))
\* the run went through the loop and ended
BenchEnded == bm_pc \in {"done", "exited"}

\* C28 (no model call): under --resume no model call is made for a tutorial
\* that has an item in the existing file and is not refreshed.
C28_NoCallForCompleted ==
    (bm_args.resume /\ bm_pc # "start") =>
        \A c \in 1..Len(bm_calls) :
            (\E i \in 1..Len(OldItems) : OldItems[i].tutorial_id = bm_calls[c])
                => bm_calls[c] \in bm_args.refresh_filters

\* C28 (rewritten file): the written file is the existing items of the
\* non-refreshed tutorials, in their order, followed by the new items.
C28_KeptThenNew ==
    (bm_args.resume /\ bm_pc = "done") =>
        bm_file.items = not_refreshed(OldItems, bm_args.refresh_filters) \o NewItems

\* C28: under --resume a completed, non-refreshed tutorial gets no model
\* call, the rewritten file is the kept existing items followed by the new
\* ones, and when the run has ended the file holds no item of a refreshed
\* tutorial other than the newly generated ones, also when the regeneration
\* failed or returned nothing.
C28_ResumeRefresh ==
    /\ C28_NoCallForCompleted
    /\ C28_KeptThenNew
    /\ (bm_args.resume /\ BenchEnded) =>
           \A i \in 1..Len(bm_file.items) :
               bm_file.items[i].tutorial_id \in bm_args.refresh_filters
                   => \E j \in 1..Len(NewItems) : NewItems[j] = bm_file.items[i]

(***************************************************************************)
(* The dataset attribution of one item: _pick_datasets_for_tool and the    *)
(* datasets / dataset_paths entries of the item metadata.                  *)
(* A dataset string is a record: where it points (a URL of the tutorial    *)
(* metadata, a downloaded path, a name given by the model), the base name  *)
(* and the extension of its last path component.                           *)
(***************************************************************************)
FASTQ_EXTS == {".fastq", ".fastq.gz", ".fq", ".fq.gz", ".fastqsanger"}
BAM_EXTS == {".bam"}
\* Path(p).name
PathName(p) == <<p.base, p.ext>>
\* name_to_path.get(base, name): the last path of that name wins
name_to_path_get(dataset_paths, name) ==
    LET hits == {i \in 1..Len(dataset_paths) : PathName(dataset_paths[i]) = PathName(name)}
    IN  IF hits = {} THEN name
        ELSE dataset_paths[CHOOSE i \in hits : \A j \in hits : j <= i]
matched_paths(requested_names, dataset_paths) ==
    [i \in 1..Len(requested_names) |-> name_to_path_get(dataset_paths, requested_names[i])]
\* _filter_by_ext
RECURSIVE filter_by_ext(_, _)
filter_by_ext(candidates, exts) ==
    IF candidates = <<>> THEN <<>>
    ELSE (IF Head(candidates).ext \in exts THEN <<Head(candidates)>> ELSE <<>>)
         \o filter_by_ext(Tail(candidates), exts)
\* Python's `a or b` on two lists
ListOr(a, b) == IF a # <<>> THEN a ELSE b
\* the tool ids, by the substring tests of _pick_datasets_for_tool
ToolKinds == {"none", "fastqc", "multiqc", "other"}
limit_four(candidates, tool_id) ==
    LET by_ext == CASE tool_id = "fastqc" -> filter_by_ext(candidates, FASTQ_EXTS)
                      [] tool_id = "multiqc" ->
                             filter_by_ext(candidates, FASTQ_EXTS \cup BAM_EXTS)
                      [] OTHER -> candidates
    IN  IF Len(by_ext) > 4 THEN SubSeq(by_ext, 1, 4) ELSE by_ext
pick_datasets_for_tool(requested_names, tut, tool_id) ==
    LET matched == matched_paths(requested_names, tut.dataset_paths)
        candidates == IF matched # <<>> THEN matched
                      ELSE ListOr(tut.dataset_paths, tut.datasets)
    IN  IF tool_id = "none" \/ candidates = <<>> THEN candidates
        ELSE limit_four(candidates, tool_id)
\* "datasets" and "dataset_paths" of the item metadata
item_datasets(requested_names, tut, tool_id) ==
    LET q_datasets == pick_datasets_for_tool(requested_names, tut, tool_id)
    IN  [datasets |-> ListOr(q_datasets, tut.datasets),
         dataset_paths |-> ListOr(q_datasets, ListOr(tut.dataset_paths, tut.datasets))]

MaxDatasets == 5
DatasetExt(i) == IF i % 3 = 1 THEN ".fastq" ELSE IF i % 3 = 2 THEN ".txt" ELSE ".bam"
DatasetAt(where, i) == [where |-> where, base |-> i, ext |-> DatasetExt(i)]
DatasetLists(where) ==
    {[i \in 1..n |-> DatasetAt(where, i)] : n \in 0..MaxDatasets}
    \cup {[i \in 1..n |-> DatasetAt(where, 2 * i)] : n \in 1..2}

DatasetInit ==
    /\ or_args = Idle /\ or_gold = Idle /\ or_pos = Idle /\ or_processed = Idle
    /\ or_file = Idle /\ or_gold_items = Idle /\ or_pred_items = Idle /\ or_results = Idle
    /\ or_pc = Idle
    /\ nz_fn = Idle /\ nz_id = Idle /\ nz_once = Idle /\ nz_twice = Idle
    /\ nz_pc = Idle
    /\ tk_run = Idle /\ tk_returned = Idle /\ top_k = Idle /\ tk_line = Idle
    /\ tk_pc = Idle
    /\ ds_requested \in DatasetLists("name")
    /\ ds_tutorial \in [datasets : DatasetLists("url"), dataset_paths : DatasetLists("path")]
    /\ ds_tool \in ToolKinds
    /\ ds_item = [datasets |-> <<>>, dataset_paths |-> <<>>]
    /\ ds_pc = "block"
    /\ st_script = Idle /\ st_config = Idle /\ st_work = Idle /\ st_pc = Idle
    /\ bm_args = Idle /\ bm_tutorials = Idle /\ bm_before = Idle /\ bm_file = Idle
    /\ existing_items = Idle /\ completed_tutorials = Idle /\ all_items = Idle /\ bm_pos = Idle
    /\ bm_calls = Idle /\ bm_pc = Idle
    /\ markdown = Idle
    /\ rt_adapter = Idle /\ max_retries = Idle /\ attempt = Idle /\ rt_requests = Idle
    /\ rt_sleeps = Idle /\ rt_pc = Idle
    /\ pv_provider = Idle /\ pv_raw = Idle /\ pv_result = Idle
    /\ sc_tools = Idle /\ sc_query = Idle /\ sc_k = Idle /\ sc_out = Idle
    /\ pr_script = Idle /\ pr_args = Idle /\ pr_entries = Idle /\ pr_pos = Idle
    /\ out_before = Idle /\ out_file = Idle /\ out_buffer = Idle /\ existing_ids = Idle
    /\ processed = Idle /\ model_calls = Idle /\ pr_pc = Idle
    /\ preds = Idle /\ gold = Idle /\ k = Idle /\ hit = Idle /\ mrr = Idle /\ ndcg = Idle
    /\ gold_items = Idle /\ pred_items = Idle /\ ks = Idle /\ totals = Idle
    /\ count = Idle /\ cm_pos = Idle /\ cm_pc = Idle /\ results = Idle
    /\ args = Idle /\ fg_items = Idle /\ filtered = Idle /\ fg_pc = Idle
    /\ metadata = Idle /\ workflow_dir = Idle /\ tutorial = Idle /\ lt_pc = Idle
    /\ gq_tools = Idle /\ gq_idx = Idle /\ query_block = Idle
    /\ benchmark_items = Idle /\ gq_pc = Idle /\ gq_calls = Idle /\ raw_written = Idle

\* generate_queries_for_tutorial: the dataset part of one loop iteration
BuildItemDatasets ==
    /\ ds_pc = "block"
    /\ ds_item' = item_datasets(ds_requested, ds_tutorial, ds_tool)
    /\ ds_pc' = "emitted"
    /\ UNCHANGED <<ds_requested, ds_tutorial, ds_tool>>
    /\ UNCHANGED <<metricVars, computeVars, filterVars, loadVars, genVars, predictVars, selectVars, retryVars, providerVars, startupVars, benchVars, topkVars, normalizeVars, oracleVars>>

DatasetNext == BuildItemDatasets

SpecDatasets == DatasetInit /\ [][DatasetNext]_vars

\* C25: the datasets and the dataset_paths of every emitted item have at
\* most 4 entries, whatever the tool, the tutorial's datasets and the
\* datasets the model declared.
C25_AtMostFourDatasets ==
    ds_pc = "emitted" =>
        /\ Len(ds_item.datasets) <= 4
        /\ Len(ds_item.dataset_paths) <= 4

(***************************************************************************)
(* The predictions of one written line: extract_predictions, the agents of *)
(* run_v1_agent_eval.generate_predictions, unique_in_order and the top-K   *)
(* slice.  A returned entry is a record: whether the JSON value is a       *)
(* string, and its text (str(value) for the others).                       *)
(***************************************************************************)
\* extract_predictions: the loop over preds, from position i with output out
RECURSIVE extract_loop(_, _, _, _)
extract_loop(tool_preds, i, out, n) ==
    IF i > Len(tool_preds) THEN out
    ELSE LET tool == tool_preds[i]
         IN  IF ~tool.is_str THEN extract_loop(tool_preds, i + 1, out, n)
             ELSE IF tool.text \in Range(out) THEN extract_loop(tool_preds, i + 1, out, n)
             ELSE IF Len(out) + 1 >= n THEN Append(out, tool.text)
             ELSE extract_loop(tool_preds, i + 1, Append(out, tool.text), n)
extract_predictions(tool_preds, n) == extract_loop(tool_preds, 1, <<>>, n)
\* unique_in_order
RECURSIVE unique_from(_, _)
unique_from(values, out) ==
    IF values = <<>> THEN out
    ELSE unique_from(Tail(values),
                     IF Head(values) \in Range(out) THEN out ELSE Append(out, Head(values)))
unique_in_order(values) == unique_from(values, <<>>)
\* [t for t in entry.get("tools") or [] if isinstance(t, str)]
RECURSIVE oracle_predictions(_)
oracle_predictions(tools) ==
    IF tools = <<>> THEN <<>>
    ELSE (IF Head(tools).is_str THEN <<Head(tools).text>> ELSE <<>>)
         \o oracle_predictions(Tail(tools))
\* [str(t.get("tool_id")) for t in candidates if t.get("tool_id")][: args.top_k]
first_tutorial_tool_predictions(candidates, n) ==
    PySlicePrefix([i \in 1..Len(candidates) |-> candidates[i].text], n)
\* the predictions of a line of run_v1_agent_eval
run_v1_predictions(agent, returned, n) ==
    LET predictions ==
            CASE agent = "oracle" -> oracle_predictions(returned)
              [] agent = "first_tutorial_tool" -> first_tutorial_tool_predictions(returned, n)
              [] OTHER -> extract_predictions(returned, n)
    IN  PySlicePrefix(unique_in_order(predictions), n)

MaxReturned == 3
MaxTopK == 2
ReturnedEntries ==
    {[is_str |-> TRUE, text |-> "a"], [is_str |-> TRUE, text |-> "b"],
     [is_str |-> FALSE, text |-> "7"]}
TopKRuns ==
    {<<LlmPredictions, "llm">>, <<RunV1, "llm">>, <<RunV1, "oracle">>,
     <<RunV1, "first_tutorial_tool">>}

TopKInit ==
    /\ or_args = Idle /\ or_gold = Idle /\ or_pos = Idle /\ or_processed = Idle
    /\ or_file = Idle /\ or_gold_items = Idle /\ or_pred_items = Idle /\ or_results = Idle
    /\ or_pc = Idle
    /\ nz_fn = Idle /\ nz_id = Idle /\ nz_once = Idle /\ nz_twice = Idle
    /\ nz_pc = Idle
    /\ tk_run \in TopKRuns
    /\ tk_returned \in SeqsUpTo(ReturnedEntries, MaxReturned)
    /\ top_k \in 0..MaxTopK
    /\ tk_line = <<>>
    /\ tk_pc = "returned"
    /\ rt_adapter = Idle /\ max_retries = Idle /\ attempt = Idle /\ rt_requests = Idle
    /\ rt_sleeps = Idle /\ rt_pc = Idle
    /\ pv_provider = Idle /\ pv_raw = Idle /\ pv_result = Idle
    /\ sc_tools = Idle /\ sc_query = Idle /\ sc_k = Idle /\ sc_out = Idle
    /\ pr_script = Idle /\ pr_args = Idle /\ pr_entries = Idle /\ pr_pos = Idle
    /\ out_before = Idle /\ out_file = Idle /\ out_buffer = Idle /\ existing_ids = Idle
    /\ processed = Idle /\ model_calls = Idle /\ pr_pc = Idle
    /\ preds = Idle /\ gold = Idle /\ k = Idle /\ hit = Idle /\ mrr = Idle /\ ndcg = Idle
    /\ gold_items = Idle /\ pred_items = Idle /\ ks = Idle /\ totals = Idle
    /\ count = Idle /\ cm_pos = Idle /\ cm_pc = Idle /\ results = Idle
    /\ args = Idle /\ fg_items = Idle /\ filtered = Idle /\ fg_pc = Idle
    /\ metadata = Idle /\ workflow_dir = Idle /\ tutorial = Idle /\ lt_pc = Idle
    /\ gq_tools = Idle /\ gq_idx = Idle /\ query_block = Idle
    /\ benchmark_items = Idle /\ gq_pc = Idle /\ gq_calls = Idle /\ raw_written = Idle
    /\ markdown = Idle
    /\ st_script = Idle /\ st_config = Idle /\ st_work = Idle /\ st_pc = Idle
    /\ bm_args = Idle /\ bm_tutorials = Idle /\ bm_before = Idle /\ bm_file = Idle
    /\ existing_items = Idle /\ completed_tutorials = Idle /\ all_items = Idle /\ bm_pos = Idle
    /\ bm_calls = Idle /\ bm_pc = Idle
    /\ ds_requested = Idle /\ ds_tutorial = Idle /\ ds_tool = Idle /\ ds_item = Idle
    /\ ds_pc = Idle

\* generate_llm_predictions.main: extract_predictions, then the line is written
LlmPredictionsLine ==
    /\ tk_pc = "returned" /\ tk_run[1] = LlmPredictions
    /\ tk_line' = extract_predictions(tk_returned, top_k)
    /\ tk_pc' = "written"
    /\ UNCHANGED <<tk_run, tk_returned, top_k>>
    /\ UNCHANGED <<metricVars, computeVars, filterVars, loadVars, genVars, predictVars, selectVars, retryVars, providerVars, startupVars, benchVars, datasetVars, normalizeVars, oracleVars>>

\* run_v1_agent_eval.generate_predictions: the predictions of the agent,
\* unique_in_order(predictions)[: args.top_k], _write_prediction
RunV1Line ==
    /\ tk_pc = "returned" /\ tk_run[1] = RunV1
    /\ tk_line' = run_v1_predictions(tk_run[2], tk_returned, top_k)
    /\ tk_pc' = "written"
    /\ UNCHANGED <<tk_run, tk_returned, top_k>>
    /\ UNCHANGED <<metricVars, computeVars, filterVars, loadVars, genVars, predictVars, selectVars, retryVars, providerVars, startupVars, benchVars, datasetVars, normalizeVars, oracleVars>>

TopKNext ==
    \/ LlmPredictionsLine
    \/ RunV1Line

SpecTopK == TopKInit /\ [][TopKNext]_vars

\* line keeps the relative order of the entries of returned
InReturnedOrder(line, returned) ==
    \E f \in [1..Len(line) -> 1..Len(returned)] :
        /\ \A i \in 1..Len(line) : returned[f[i]].text = line[i]
        /\ \A i, j \in 1..Len(line) : i < j => f[i] < f[j]

\* C26: every written prediction line holds pairwise-distinct tool ids, at
\* most top-K of them for any top-K >= 0, in the order in which the agent or
\* the model returned them.
C26_DistinctTopKOrdered ==
    tk_pc = "written" =>
        /\ IsUnique(tk_line)
        /\ Len(tk_line) <= top_k
        /\ InReturnedOrder(tk_line, tk_returned)

(***************************************************************************)
(* Tool-id normalization applied once and twice: normalize_tool_id         *)
(* (evaluate_recommendations.py) and normalize_base_id                     *)
(* (build_usegalaxy_tool_catalog.py).  An id is its sequence of "/"        *)
(* separated segments.                                                     *)
(***************************************************************************)
\* build_usegalaxy_tool_catalog.normalize_base_id
normalize_base_id(tool_id) ==
    IF Len(tool_id) >= 2 /\ tool_id[1] = Toolshed
    THEN SubSeq(tool_id, 1, Len(tool_id) - 1)
    ELSE tool_id
normalize_with(fn, tool_id) ==
    IF fn = "normalize_base_id" THEN normalize_base_id(tool_id)
    ELSE normalize_tool_id(tool_id)

MaxSegments == 5
IdSegments == {Toolshed, "repos", "x", "1.0.0"}
ToolIds == SeqsUpTo(IdSegments, MaxSegments) \ {<<>>}

NormalizeInit ==
    /\ or_args = Idle /\ or_gold = Idle /\ or_pos = Idle /\ or_processed = Idle
    /\ or_file = Idle /\ or_gold_items = Idle /\ or_pred_items = Idle /\ or_results = Idle
    /\ or_pc = Idle
    /\ nz_fn \in {"normalize_tool_id", "normalize_base_id"}
    /\ nz_id \in ToolIds
    /\ nz_once = <<>>
    /\ nz_twice = <<>>
    /\ nz_pc = "id"
    /\ rt_adapter = Idle /\ max_retries = Idle /\ attempt = Idle /\ rt_requests = Idle
    /\ rt_sleeps = Idle /\ rt_pc = Idle
    /\ pv_provider = Idle /\ pv_raw = Idle /\ pv_result = Idle
    /\ sc_tools = Idle /\ sc_query = Idle /\ sc_k = Idle /\ sc_out = Idle
    /\ pr_script = Idle /\ pr_args = Idle /\ pr_entries = Idle /\ pr_pos = Idle
    /\ out_before = Idle /\ out_file = Idle /\ out_buffer = Idle /\ existing_ids = Idle
    /\ processed = Idle /\ model_calls = Idle /\ pr_pc = Idle
    /\ preds = Idle /\ gold = Idle /\ k = Idle /\ hit = Idle /\ mrr = Idle /\ ndcg = Idle
    /\ gold_items = Idle /\ pred_items = Idle /\ ks = Idle /\ totals = Idle
    /\ count = Idle /\ cm_pos = Idle /\ cm_pc = Idle /\ results = Idle
    /\ args = Idle /\ fg_items = Idle /\ filtered = Idle /\ fg_pc = Idle
    /\ metadata = Idle /\ workflow_dir = Idle /\ tutorial = Idle /\ lt_pc = Idle
    /\ gq_tools = Idle /\ gq_idx = Idle /\ query_block = Idle
    /\ benchmark_items = Idle /\ gq_pc = Idle /\ gq_calls = Idle /\ raw_written = Idle
    /\ markdown = Idle
    /\ st_script = Idle /\ st_config = Idle /\ st_work = Idle /\ st_pc = Idle
    /\ bm_args = Idle /\ bm_tutorials = Idle /\ bm_before = Idle /\ bm_file = Idle
    /\ existing_items = Idle /\ completed_tutorials = Idle /\ all_items = Idle /\ bm_pos = Idle
    /\ bm_calls = Idle /\ bm_pc = Idle
    /\ ds_requested = Idle /\ ds_tutorial = Idle /\ ds_tool = Idle /\ ds_item = Idle
    /\ ds_pc = Idle
    /\ tk_run = Idle /\ tk_returned = Idle /\ top_k = Idle /\ tk_line = Idle
    /\ tk_pc = Idle

\* the id is normalized (build of the catalog, of the section bases, of the
\* gold and prediction lists)
NormalizeOnce ==
    /\ nz_pc = "id"
    /\ nz_once' = normalize_with(nz_fn, nz_id)
    /\ nz_pc' = "once"
    /\ UNCHANGED <<nz_fn, nz_id, nz_twice>>
    /\ UNCHANGED <<metricVars, computeVars, filterVars, loadVars, genVars, predictVars, selectVars, retryVars, providerVars, startupVars, benchVars, datasetVars, topkVars, oracleVars>>

\* the normalized id is normalized again by normalize_tool_id
\* (filter_gold_items on section ids, _normalize_list on stored ids)
NormalizeTwice ==
    /\ nz_pc = "once"
    /\ nz_twice' = normalize_tool_id(nz_once)
    /\ nz_pc' = "twice"
    /\ UNCHANGED <<nz_fn, nz_id, nz_once>>
    /\ UNCHANGED <<metricVars, computeVars, filterVars, loadVars, genVars, predictVars, selectVars, retryVars, providerVars, startupVars, benchVars, datasetVars, topkVars, oracleVars>>

NormalizeNext ==
    \/ NormalizeOnce
    \/ NormalizeTwice

SpecNormalize == NormalizeInit /\ [][NormalizeNext]_vars

\* the id starts with "toolshed.g2.bx.psu.edu/"
HasToolshedPrefix(tool_id) == Len(tool_id) >= 2 /\ tool_id[1] = Toolshed

\* C27: normalization removes exactly the last segment of an id with the
\* toolshed prefix, returns every other id unchanged, and normalizing the
\* result again changes nothing.
C27_NormalizeStable ==
    /\ nz_pc # "id" =>
           /\ HasToolshedPrefix(nz_id) => nz_once = SubSeq(nz_id, 1, Len(nz_id) - 1)
           /\ ~HasToolshedPrefix(nz_id) => nz_once = nz_id
    /\ nz_pc = "twice" => nz_twice = nz_once

(***************************************************************************)
(* The oracle run end to end: run_v1_agent_eval.main with --agent oracle,  *)
(* generate_predictions followed by evaluate and compute_metrics.          *)
(* A gold tool entry is a record: whether the JSON value is a string, and  *)
(* the tool id as its sequence of "/" separated segments.                  *)
(***************************************************************************)
\* "if not isinstance(qid, str) or not qid" ("" stands for every such id)
valid_qid(qid) == qid # ""
\* _normalize_list
normalize_list(values, do_normalize) ==
    IF ~do_normalize THEN unique_in_order(values)
    ELSE unique_in_order([i \in 1..Len(values) |-> normalize_tool_id(values[i])])
\* evaluate: the gold list of one item
gold_list(item, do_normalize) ==
    normalize_list(oracle_predictions(item.tools), do_normalize)
\* evaluate: the prediction list of one line
pred_list(line, do_normalize) == normalize_list(line.predictions, do_normalize)
\* a dict filled in the order of items: the last item of an id wins
last_of(items, qid) ==
    items[CHOOSE i \in 1..Len(items) :
              /\ items[i].id = qid
              /\ \A j \in (i + 1)..Len(items) : items[j].id # qid]
qids_of(items) == {items[i].id : i \in 1..Len(items)} \ {""}
evaluate_gold_items(items, do_normalize) ==
    [qid \in qids_of(items) |-> gold_list(last_of(items, qid), do_normalize)]
evaluate_pred_items(lines, do_normalize) ==
    [qid \in qids_of(lines) |-> pred_list(last_of(lines, qid), do_normalize)]
\* compute_metrics: the loop over gold_items.items()
RECURSIVE cm_over(_, _, _, _)
cm_over(qids, gm, pm, acc) ==
    IF qids = {} THEN acc
    ELSE LET qid == CHOOSE x \in qids : TRUE
         IN  cm_over(qids \ {qid}, gm, pm,
                     IF qid \in DOMAIN pm
                     THEN [tot |-> cm_add(acc.tot, pm[qid], Range(gm[qid])),
                           cnt |-> acc.cnt + 1]
                     ELSE acc)
compute_metrics(gm, pm, kseq) ==
    LET acc == cm_over(DOMAIN gm, gm, pm, [tot |-> cm_totals_init(kseq), cnt |-> 0])
    IN  cm_results(acc.tot, acc.cnt, kseq)

MaxOracleItems == 2
NotAString == [is_str |-> FALSE, text |-> <<"7">>]
ToolEntry(t) == [is_str |-> TRUE, text |-> t]
OracleToolLists ==
    {<<>>, <<ToolEntry(Fastqc)>>, <<ToolEntry(FastqcOld), ToolEntry(Fastqc)>>,
     <<ToolEntry(Bwa), ToolEntry(Fastqc)>>, <<NotAString, ToolEntry(Bwa)>>,
     <<ToolEntry(Bwa), ToolEntry(Bwa), ToolEntry(FastqcOld)>>}
OracleGoldItems == [id : {"x", "y", ""}, tools : OracleToolLists]
OracleArgs ==
    [top_k : 1..MaxTopK, normalize_tools : BOOLEAN, k : {<<1>>, <<3, 1>>},
     max_queries : {0, 1}]

OracleInit ==
    /\ or_args \in OracleArgs
    /\ or_gold \in SeqsUpTo(OracleGoldItems, MaxOracleItems)
    /\ or_pos = 1
    /\ or_processed = 0
    /\ or_file = <<>>
    /\ or_gold_items = <<>>
    /\ or_pred_items = <<>>
    /\ or_results = <<>>
    /\ or_pc = "start"
    /\ rt_adapter = Idle /\ max_retries = Idle /\ attempt = Idle /\ rt_requests = Idle
    /\ rt_sleeps = Idle /\ rt_pc = Idle
    /\ pv_provider = Idle /\ pv_raw = Idle /\ pv_result = Idle
    /\ sc_tools = Idle /\ sc_query = Idle /\ sc_k = Idle /\ sc_out = Idle
    /\ pr_script = Idle /\ pr_args = Idle /\ pr_entries = Idle /\ pr_pos = Idle
    /\ out_before = Idle /\ out_file = Idle /\ out_buffer = Idle /\ existing_ids = Idle
    /\ processed = Idle /\ model_calls = Idle /\ pr_pc = Idle
    /\ preds = Idle /\ gold = Idle /\ k = Idle /\ hit = Idle /\ mrr = Idle /\ ndcg = Idle
    /\ gold_items = Idle /\ pred_items = Idle /\ ks = Idle /\ totals = Idle
    /\ count = Idle /\ cm_pos = Idle /\ cm_pc = Idle /\ results = Idle
    /\ args = Idle /\ fg_items = Idle /\ filtered = Idle /\ fg_pc = Idle
    /\ metadata = Idle /\ workflow_dir = Idle /\ tutorial = Idle /\ lt_pc = Idle
    /\ gq_tools = Idle /\ gq_idx = Idle /\ query_block = Idle
    /\ benchmark_items = Idle /\ gq_pc = Idle /\ gq_calls = Idle /\ raw_written = Idle
    /\ markdown = Idle
    /\ st_script = Idle /\ st_config = Idle /\ st_work = Idle /\ st_pc = Idle
    /\ bm_args = Idle /\ bm_tutorials = Idle /\ bm_before = Idle /\ bm_file = Idle
    /\ existing_items = Idle /\ completed_tutorials = Idle /\ all_items = Idle /\ bm_pos = Idle
    /\ bm_calls = Idle /\ bm_pc = Idle
    /\ ds_requested = Idle /\ ds_tutorial = Idle /\ ds_tool = Idle /\ ds_item = Idle
    /\ ds_pc = Idle
    /\ tk_run = Idle /\ tk_returned = Idle /\ top_k = Idle /\ tk_line = Idle
    /\ tk_pc = Idle
    /\ nz_fn = Idle /\ nz_id = Idle /\ nz_once = Idle /\ nz_twice = Idle
    /\ nz_pc = Idle

\* generate_predictions: raise ValueError when there is no gold item
OracleStart ==
    /\ or_pc = "start"
    /\ or_pc' = IF or_gold = <<>> THEN "raised" ELSE "loop"
    /\ UNCHANGED <<or_args, or_gold, or_pos, or_processed, or_file, or_gold_items,
                   or_pred_items, or_results>>
    /\ UNCHANGED <<metricVars, computeVars, filterVars, loadVars, genVars, predictVars, selectVars, retryVars, providerVars, startupVars, benchVars, datasetVars, topkVars, normalizeVars>>

\* loop: an entry without a usable id is passed over
OracleSkipEntry ==
    /\ or_pc = "loop" /\ or_pos <= Len(or_gold)
    /\ ~valid_qid(or_gold[or_pos].id)
    /\ or_pos' = or_pos + 1
    /\ UNCHANGED <<or_args, or_gold, or_processed, or_file, or_gold_items,
                   or_pred_items, or_results, or_pc>>
    /\ UNCHANGED <<metricVars, computeVars, filterVars, loadVars, genVars, predictVars, selectVars, retryVars, providerVars, startupVars, benchVars, datasetVars, topkVars, normalizeVars>>

\* loop: if args.max_queries and processed >= args.max_queries: break
OracleCapReached ==
    /\ or_pc = "loop" /\ or_pos <= Len(or_gold)
    /\ valid_qid(or_gold[or_pos].id)
    /\ or_args.max_queries # 0 /\ or_processed >= or_args.max_queries
    /\ or_pc' = "evaluate"
    /\ UNCHANGED <<or_args, or_gold, or_pos, or_processed, or_file, or_gold_items,
                   or_pred_items, or_results>>
    /\ UNCHANGED <<metricVars, computeVars, filterVars, loadVars, genVars, predictVars, selectVars, retryVars, providerVars, startupVars, benchVars, datasetVars, topkVars, normalizeVars>>

\* loop: the oracle predictions of the entry are written
OraclePredict ==
    /\ or_pc = "loop" /\ or_pos <= Len(or_gold)
    /\ valid_qid(or_gold[or_pos].id)
    /\ ~(or_args.max_queries # 0 /\ or_processed >= or_args.max_queries)
    /\ or_file' = Append(or_file,
           [id |-> or_gold[or_pos].id,
            predictions |-> run_v1_predictions("oracle", or_gold[or_pos].tools,
                                               or_args.top_k)])
    /\ or_processed' = or_processed + 1
    /\ or_pos' = or_pos + 1
    /\ UNCHANGED <<or_args, or_gold, or_gold_items, or_pred_items, or_results, or_pc>>
    /\ UNCHANGED <<metricVars, computeVars, filterVars, loadVars, genVars, predictVars, selectVars, retryVars, providerVars, startupVars, benchVars, datasetVars, topkVars, normalizeVars>>

\* the loop is over
OracleLoopEnd ==
    /\ or_pc = "loop" /\ or_pos > Len(or_gold)
    /\ or_pc' = "evaluate"
    /\ UNCHANGED <<or_args, or_gold, or_pos, or_processed, or_file, or_gold_items,
                   or_pred_items, or_results>>
    /\ UNCHANGED <<metricVars, computeVars, filterVars, loadVars, genVars, predictVars, selectVars, retryVars, providerVars, startupVars, benchVars, datasetVars, topkVars, normalizeVars>>

\* evaluate: the two dicts, then compute_metrics
OracleEvaluate ==
    /\ or_pc = "evaluate"
    /\ or_gold_items' = evaluate_gold_items(or_gold, or_args.normalize_tools)
    /\ or_pred_items' = evaluate_pred_items(or_file, or_args.normalize_tools)
    /\ or_results' = compute_metrics(
                         evaluate_gold_items(or_gold, or_args.normalize_tools),
                         evaluate_pred_items(or_file, or_args.normalize_tools),
                         or_args.k)
    /\ or_pc' = "done"
    /\ UNCHANGED <<or_args, or_gold, or_pos, or_processed, or_file>>
    /\ UNCHANGED <<metricVars, computeVars, filterVars, loadVars, genVars, predictVars, selectVars, retryVars, providerVars, startupVars, benchVars, datasetVars, topkVars, normalizeVars>>

OracleNext ==
    \/ OracleStart
    \/ OracleSkipEntry
    \/ OracleCapReached
    \/ OraclePredict
    \/ OracleLoopEnd
    \/ OracleEvaluate

SpecOracle == OracleInit /\ [][OracleNext]_vars

\* the ids that evaluate scores and whose gold list is not empty
ScoredWithTools ==
    {qid \in DOMAIN or_gold_items \cap DOMAIN or_pred_items : or_gold_items[qid] # <<>>}

\* C30: after an oracle run with top-K >= 1 and no earlier predictions file,
\* every gold id with at least one gold tool has a prediction line (unless
\* --max-queries cut the run) and scores Hit@k = 1 and MRR@k = 1 for every
\* k >= 1, with and without normalization; when every scored id has tools
\* the averaged hit and mrr are 1.0.
C30_OracleScoresOne ==
    or_pc = "done" =>
        /\ or_args.max_queries = 0 => DOMAIN or_gold_items \subseteq DOMAIN or_pred_items
        /\ \A qid \in ScoredWithTools : \A kk \in 1..MaxK :
               /\ hit_at_k(or_pred_items[qid], Range(or_gold_items[qid]), kk) = Unit
               /\ mrr_at_k(or_pred_items[qid], Range(or_gold_items[qid]), kk) = Unit
        /\ (/\ ScoredWithTools # {}
            /\ ScoredWithTools = DOMAIN or_gold_items \cap DOMAIN or_pred_items)
               => \A kk \in Range(or_args.k) :
                      /\ or_results[Str(kk)].hit = Unit
                      /\ or_results[Str(kk)].mrr = Unit

=============================================================================
